---------------------------- MODULE Spec2Model ----------------------------
(***************************************************************************)
(* WAF-lya: the adaptive filtering pipeline of internal/WAF.               *)
(*                                                                         *)
(* Time is a discrete clock `now` whose tick is one minute; a              *)
(* time.Duration is a number of ticks.  The zero time.Time is ZeroTime,    *)
(* which the clock never shows.                                            *)
(***************************************************************************)
EXTENDS Integers, Sequences, FiniteSets, TLC

(***************************************************************************)
(* Bounds of the model.                                                    *)
(***************************************************************************)
\* The clock runs from 1 to MaxTime.
MaxTime == 6
\* The durations offered to Ban when the registry is driven directly.
MaxDur == 3

\* The fields of the RateLimitMiddleware under check (m.limit in tokens per
\* tick, m.burst, m.banDuration, m.multiplier, m.violationResetTTL).
RLLimit == 1
RLBurst == 2
RLBanDuration == 1
RLMultiplier == 2
RLViolationResetTTL == 3

\* The fields of the ContextMiddleware under check (m.window, m.threshold,
\* m.banDuration, m.multiplier, m.violationResetTTL).
CXWindow == 2
CXThreshold == 2
CXBanDuration == 1
CXMultiplier == 2
CXViolationResetTTL == 3

(***************************************************************************)
(* Constants of the program.                                               *)
(***************************************************************************)
\* time.Time{} (IsZero): the clock starts after it.
ZeroTime == 0

\* rate.NewLimiter(rate.Limit(5), 20) of stateStore.Get
DefaultLimit == 5
DefaultBurst == 20

\* SignatureMiddleware.banDuration, 5 * time.Minute (a tick of the clock being
\* a minute), and its Retry-After in seconds
SGBanDuration == 5
SGRetryAfter == 300

\* Identifiers extractIP can yield; "" is the absent identifier.
Ids == {"a", "b"}
ReqIds == {"a"}

\* Goroutines serving requests.
Slots == {1}

VARIABLES
    now,        \* the wall clock read by time.Now()
    bans,       \* banList.m: identifier -> banEntry.until (a partial map)
    lastBan,    \* history: the expiry written by the most recent Ban of each identifier
    ret,        \* the last direct call (ban registry, signature matching) and its result
    chain,      \* WAF.middlewares, as the names of the filters registered
    store,      \* stateStore.store: identifier -> *State (an index of heap)
    heap,       \* the State objects allocated so far
    req,        \* the request each goroutine is serving and where it stands
    hist        \* history of each identifier, kept for the properties only

regVars == <<bans, lastBan>>
wafVars == <<chain, store, heap, req, hist>>
vars == <<now, bans, lastBan, ret, chain, store, heap, req, hist>>

(***************************************************************************)
(* sync.Map as a partial function.                                         *)
(***************************************************************************)
MapStore(m, k, v) == [x \in (DOMAIN m) \cup {k} |-> IF x = k THEN v ELSE m[x]]

MapDelete(m, k) == [x \in (DOMAIN m) \ {k} |-> m[x]]

EmptyMap == [x \in {} |-> 0]

(***************************************************************************)
(* Strings are sequences of one-character strings.                         *)
(***************************************************************************)
UpperChars == <<"A","B","C","D","E","F","G","H","I","J","K","L","M",
                "N","O","P","Q","R","S","T","U","V","W","X","Y","Z">>

LowerChars == <<"a","b","c","d","e","f","g","h","i","j","k","l","m",
                "n","o","p","q","r","s","t","u","v","w","x","y","z">>

DigitChars == <<"0","1","2","3","4","5","6","7","8","9">>

\* The printable ASCII characters, AsciiChars[i] having code 31 + i (code 96
\* is written "<backtick>").
AsciiChars == <<" ","!","\"","#","$","%","&","'","(",")","*","+",",","-",".","/",
                "0","1","2","3","4","5","6","7","8","9",":",";","<","=",">","?",
                "@","A","B","C","D","E","F","G","H","I","J","K","L","M","N","O",
                "P","Q","R","S","T","U","V","W","X","Y","Z","[","\\","]","^","_",
                "<backtick>","a","b","c","d","e","f","g","h","i","j","k","l","m","n","o",
                "p","q","r","s","t","u","v","w","x","y","z","{","|","}","~">>

\* Any character outside the table above and the three white-space controls.
OtherChar == "<other>"

Range(s) == {s[i] : i \in DOMAIN s}

IsUpper(c) == c \in Range(UpperChars)
IsLower(c) == c \in Range(LowerChars)
IsDigit(c) == c \in Range(DigitChars)
IsLetter(c) == IsUpper(c) \/ IsLower(c)
IsAlnum(c) == IsLetter(c) \/ IsDigit(c)

\* The class \s of the regexp package and the white space of strings.TrimSpace,
\* over the characters of the model.
SpaceChars == {" ", "\t", "\n", "\r"}

IsSpace(c) == c \in SpaceChars

IndexIn(seq, c) == CHOOSE i \in DOMAIN seq : seq[i] = c

CharOfCode(n) ==
    IF n >= 32 /\ n <= 126 THEN AsciiChars[n - 31]
    ELSE IF n = 9 THEN "\t"
    ELSE IF n = 10 THEN "\n"
    ELSE IF n = 13 THEN "\r"
    ELSE OtherChar

\* s[from..to], empty when from > to.
Slice(s, from, to) == SubSeq(s, from, to)

Drop(s, n) == SubSeq(s, n + 1, Len(s))

\* Whether `pat` occurs in s at position i.
StartsAt(s, i, pat) ==
    /\ i >= 1
    /\ i + Len(pat) - 1 <= Len(s)
    /\ \A k \in 1..Len(pat) : s[i + k - 1] = pat[k]

\* The position of the first occurrence of pat in s at or after `from`; 0 if none.
IndexFrom(s, from, pat) ==
    LET hits == {i \in from..Len(s) : StartsAt(s, i, pat)}
    IN  IF hits = {} THEN 0 ELSE CHOOSE i \in hits : \A j \in hits : i <= j

Contains(s, pat) == IndexFrom(s, 1, pat) # 0

\* The length of the longest run of characters of `class` that starts at `from`.
RunLen(s, from, class) ==
    LET stops == {i \in from..Len(s) : s[i] \notin class}
    IN  IF stops = {} THEN Len(s) - from + 1
        ELSE (CHOOSE i \in stops : \A j \in stops : i <= j) - from

(***************************************************************************)
(* normalizeForSignature, step by step.                                    *)
(***************************************************************************)
HexChars == Range(DigitChars) \cup {"a","b","c","d","e","f","A","B","C","D","E","F"}

IsHex(c) == c \in HexChars

HexVal(c) ==
    IF IsDigit(c) THEN IndexIn(DigitChars, c) - 1
    ELSE IF IsLower(c) THEN IndexIn(LowerChars, c) + 9
    ELSE IndexIn(UpperChars, c) + 9

\* url.QueryUnescape fails on a '%' that two hex digits do not follow.
PercentValid(s) ==
    \A i \in DOMAIN s :
        s[i] = "%" => i + 2 <= Len(s) /\ IsHex(s[i + 1]) /\ IsHex(s[i + 2])

RECURSIVE PercentDecode(_)
PercentDecode(s) ==
    IF s = <<>> THEN <<>>
    ELSE IF s[1] = "%"
         THEN <<CharOfCode(16 * HexVal(s[2]) + HexVal(s[3]))>> \o PercentDecode(Drop(s, 3))
    ELSE IF s[1] = "+" THEN <<" ">> \o PercentDecode(Tail(s))
    ELSE <<s[1]>> \o PercentDecode(Tail(s))

\* if decoded, err := url.QueryUnescape(s); err == nil { s = decoded }
QueryUnescapeOrKeep_NoDecode(s) == s
QueryUnescapeOrKeep(s) == IF PercentValid(s) THEN PercentDecode(s) ELSE s

\* The named character references of package html that the model knows: the
\* four of markup, with and without the closing semicolon, in both cases.
Entities == <<
    << <<"l","t",";">>, "<" >>,       << <<"l","t">>, "<" >>,
    << <<"g","t",";">>, ">" >>,       << <<"g","t">>, ">" >>,
    << <<"a","m","p",";">>, "&" >>,   << <<"a","m","p">>, "&" >>,
    << <<"q","u","o","t",";">>, "\"" >>, << <<"q","u","o","t">>, "\"" >>,
    << <<"L","T",";">>, "<" >>,       << <<"L","T">>, "<" >>,
    << <<"G","T",";">>, ">" >>,       << <<"G","T">>, ">" >>,
    << <<"A","M","P",";">>, "&" >>,   << <<"A","M","P">>, "&" >>,
    << <<"Q","U","O","T",";">>, "\"" >>, << <<"Q","U","O","T">>, "\"" >> >>

HasEntity(name) == \E i \in DOMAIN Entities : Entities[i][1] = name

EntityChar(name) == Entities[CHOOSE i \in DOMAIN Entities : Entities[i][1] = name][2]

\* longestEntityWithoutSemicolon of package html.
LongestEntityWithoutSemicolon == 6

RECURSIVE NumVal(_, _)
NumVal(digits, base) ==
    IF digits = <<>> THEN 0
    ELSE base * NumVal(SubSeq(digits, 1, Len(digits) - 1), base) + HexVal(digits[Len(digits)])

\* A numeric reference "&#..." at the head of s: what it becomes and how many
\* characters of s it takes.
UnescapeNumeric(s) ==
    IF Len(s) <= 3 THEN [out |-> <<"&">>, n |-> 1]
    ELSE LET hex == s[3] \in {"x", "X"}
             start == IF hex THEN 4 ELSE 3
             k == IF hex THEN RunLen(s, start, HexChars) ELSE RunLen(s, start, Range(DigitChars))
             after == start + k
             n == IF after <= Len(s) /\ s[after] = ";" THEN after ELSE after - 1
         IN  IF n <= 3 THEN [out |-> <<"&">>, n |-> 1]
             ELSE [out |-> <<CharOfCode(NumVal(SubSeq(s, start, after - 1),
                                              IF hex THEN 16 ELSE 10))>>,
                   n |-> n]

\* A named reference "&name" at the head of s.
UnescapeNamed(s) ==
    LET k == RunLen(s, 2, Range(UpperChars) \cup Range(LowerChars) \cup Range(DigitChars))
        after == 2 + k
        n == IF after <= Len(s) /\ s[after] = ";" THEN after ELSE after - 1
        name == SubSeq(s, 2, n)
        maxLen == IF Len(name) - 1 > LongestEntityWithoutSemicolon
                  THEN LongestEntityWithoutSemicolon ELSE Len(name) - 1
        prefixes == {j \in 2..maxLen : HasEntity(SubSeq(name, 1, j))}
    IN  IF name = <<>> THEN [out |-> <<"&">>, n |-> 1]
        ELSE IF HasEntity(name) THEN [out |-> <<EntityChar(name)>>, n |-> n]
        ELSE IF prefixes # {}
             THEN LET j == CHOOSE x \in prefixes : \A y \in prefixes : y <= x
                  IN  [out |-> <<EntityChar(SubSeq(name, 1, j))>>, n |-> j + 1]
        ELSE [out |-> SubSeq(s, 1, n), n |-> n]

\* unescapeEntity of package html, at an '&' at the head of s.
UnescapeEntity(s) ==
    IF Len(s) <= 1 THEN [out |-> <<"&">>, n |-> 1]
    ELSE IF s[2] = "#" THEN UnescapeNumeric(s)
    ELSE UnescapeNamed(s)

\* html.UnescapeString: one pass, left to right.
RECURSIVE HtmlUnescape(_)
HtmlUnescape_Identity(s) == s
HtmlUnescape(s) ==
    IF s = <<>> THEN <<>>
    ELSE IF s[1] # "&" THEN <<s[1]>> \o HtmlUnescape(Tail(s))
    ELSE LET r == UnescapeEntity(s) IN r.out \o HtmlUnescape(Drop(s, r.n))

ToLowerChar(c) == IF IsUpper(c) THEN LowerChars[IndexIn(UpperChars, c)] ELSE c

\* strings.ToLower
ToLower(s) == [i \in 1..Len(s) |-> ToLowerChar(s[i])]

\* strings.TrimSpace
TrimSpace(s) ==
    LET keep == {i \in DOMAIN s : ~IsSpace(s[i])}
    IN  IF keep = {} THEN <<>>
        ELSE SubSeq(s, CHOOSE i \in keep : \A j \in keep : i <= j,
                       CHOOSE i \in keep : \A j \in keep : j <= i)

\* regexp `\s+` replaced by " "
RECURSIVE CollapseSpaces(_)
CollapseSpaces(s) ==
    IF s = <<>> THEN <<>>
    ELSE IF IsSpace(s[1]) THEN <<" ">> \o CollapseSpaces(Drop(s, RunLen(s, 1, SpaceChars)))
    ELSE <<s[1]>> \o CollapseSpaces(Tail(s))

\* A regexp `open.*?close` (with (?s)) replaced by "": leftmost, shortest.
RECURSIVE StripDelimited(_, _, _)
StripDelimited(s, open, close) ==
    LET i == IndexFrom(s, 1, open)
        j == IF i = 0 THEN 0 ELSE IndexFrom(s, i + Len(open), close)
    IN  IF j = 0 THEN s
        ELSE SubSeq(s, 1, i - 1) \o StripDelimited(Drop(s, j + Len(close) - 1), open, close)

\* regexp `(?s)/\*.*?\*/` replaced by ""
StripBlockComments(s) == StripDelimited(s, <<"/", "*">>, <<"*", "/">>)

\* regexp `(?m)--.*$` replaced by "": from "--" to the end of its line.
RECURSIVE StripLineComments(_)
StripLineComments_Keep(s) == s
StripLineComments(s) ==
    LET i == IndexFrom(s, 1, <<"-", "-">>)
        j == IF i = 0 THEN 0 ELSE IndexFrom(s, i + 2, <<"\n">>)
    IN  IF i = 0 THEN s
        ELSE IF j = 0 THEN SubSeq(s, 1, i - 1)
        ELSE SubSeq(s, 1, i - 1) \o StripLineComments(Drop(s, j - 1))

\* regexp `(?s)<!--.*?-->` replaced by ""
StripHtmlComments(s) == StripDelimited(s, <<"<", "!", "-", "-">>, <<"-", "-", ">">>)

NormalizeForSignature(s) ==
    IF s = <<>> THEN <<>>
    ELSE StripHtmlComments(StripLineComments(StripBlockComments(
            CollapseSpaces(TrimSpace(ToLower(HtmlUnescape(QueryUnescapeOrKeep(s))))))))

(***************************************************************************)
(* The built-in signature rules (NewSignatureMiddleware), each as the      *)
(* language of its regular expression.  All carry (?i).                    *)
(***************************************************************************)
SqlKeywords == {
    <<"u","n","i","o","n">>, <<"s","e","l","e","c","t">>, <<"i","n","s","e","r","t">>,
    <<"u","p","d","a","t","e">>, <<"d","e","l","e","t","e">>, <<"d","r","o","p">>,
    <<"c","r","e","a","t","e">>, <<"a","l","t","e","r">>}

ScriptOpen == <<"<","s","c","r","i","p","t">>
ScriptClose == <<"<","/","s","c","r","i","p","t",">">>
JavascriptColon == <<"j","a","v","a","s","c","r","i","p","t",":">>
OnError == <<"o","n","e","r","r","o","r">>
OnLoad == <<"o","n","l","o","a","d">>

\* Whether the (?i) literal `word` occurs in s at position i.
FoldStartsAt(s, i, word) == StartsAt(ToLower(s), i, word)

\* `(?i)(union|select|insert|update|delete|drop|create|alter)\s+(\*|[a-z_]+)`
MatchSql(s) ==
    \E i \in DOMAIN s : \E w \in SqlKeywords :
        /\ FoldStartsAt(s, i, w)
        /\ LET ws == RunLen(s, i + Len(w), SpaceChars)
               p == i + Len(w) + ws
           IN  /\ ws >= 1
               /\ p <= Len(s)
               /\ (s[p] = "*" \/ IsLetter(s[p]) \/ s[p] = "_")

\* `(?i)<script[^>]*>.*?</script>`: '.' does not match a line break.
MatchScript(s) ==
    \E i \in DOMAIN s :
        /\ FoldStartsAt(s, i, ScriptOpen)
        /\ LET j == IndexFrom(s, i + Len(ScriptOpen), <<">">>)
           IN  /\ j # 0
               /\ \E k \in (j + 1)..Len(s) :
                     /\ FoldStartsAt(s, k, ScriptClose)
                     /\ \A x \in (j + 1)..(k - 1) : s[x] # "\n"

\* `(?i)javascript:`
MatchJavascript(s) == \E i \in DOMAIN s : FoldStartsAt(s, i, JavascriptColon)

\* `(?i)word\s*=`, for onerror and onload
MatchHandler(s, word) ==
    \E i \in DOMAIN s :
        /\ FoldStartsAt(s, i, word)
        /\ LET p == i + Len(word) + RunLen(s, i + Len(word), SpaceChars)
           IN  p <= Len(s) /\ s[p] = "="

\* `(?i)\.\.[\\\/]`
MatchTraversal(s) ==
    \E i \in DOMAIN s :
        StartsAt(s, i, <<".", ".", "/">>) \/ StartsAt(s, i, <<".", ".", "\\">>)

\* rule.MatchString(normalized) for some rule of m.rules
MatchesAnyRule_ScriptOnlyRaw(s) == MatchSql(s)
MatchesAnyRule(s) ==
    \/ MatchSql(s)
    \/ MatchScript(s)
    \/ MatchJavascript(s)
    \/ MatchHandler(s, OnError)
    \/ MatchHandler(s, OnLoad)
    \/ MatchTraversal(s)

\* The loops of SignatureMiddleware.push over the candidates r.URL.Path and
\* r.URL.RawQuery.
SignatureHit(path, rawQuery) ==
    \/ MatchesAnyRule(NormalizeForSignature(path))
    \/ MatchesAnyRule(NormalizeForSignature(rawQuery))

(***************************************************************************)
(* Ban registry (module.go, banList).                                      *)
(***************************************************************************)
\* time.Now().Before(e.until)
BeforeMutLe(t, until) == t <= until
Before(t, until) == t < until

\* b.m.Load(id) and the expiry test of IsBanned: "banned", "expired" (the
\* caller goes on to Delete) or "absent".
BanLookup(b, id, t) ==
    IF id \in DOMAIN b
    THEN IF Before(t, b[id]) THEN "banned" ELSE "expired"
    ELSE "absent"

\* b.m.Delete(id) on the expired path of IsBanned.
BanExpireNoDelete(b, id) == b
BanExpire(b, id) == MapDelete(b, id)

\* Ban: b.m.Store(id, banEntry{until: time.Now().Add(d)})
BanStoreMax(b, id, t, d) ==
    IF id \in DOMAIN b /\ b[id] > t + d THEN b ELSE MapStore(b, id, t + d)
BanStore(b, id, t, d) == MapStore(b, id, t + d)

\* IsBanned as one call: the value returned and the registry afterwards.
IsBannedValue(b, id, t) == BanLookup(b, id, t) = "banned"

IsBannedAfter(b, id, t) ==
    IF BanLookup(b, id, t) = "expired" THEN BanExpire(b, id) ELSE b

(***************************************************************************)
(* Requests: r.URL.Path and r.URL.RawQuery, and what the anomaly filter    *)
(* reads from them.                                                        *)
(***************************************************************************)
\* strings.Split(s, sep) for a one-character sep
RECURSIVE Split(_, _)
Split(s, sep) ==
    LET i == IndexFrom(s, 1, <<sep>>)
    IN  IF i = 0 THEN <<s>>
        ELSE <<SubSeq(s, 1, i - 1)>> \o Split(Drop(s, i), sep)

\* strings.Trim(s, "/")
TrimSlashes(s) ==
    LET keep == {i \in DOMAIN s : s[i] # "/"}
    IN  IF keep = {} THEN <<>>
        ELSE SubSeq(s, CHOOSE i \in keep : \A j \in keep : i <= j,
                       CHOOSE i \in keep : \A j \in keep : j <= i)

\* strconv.Atoi(s) returns no error (within the range of int)
AtoiOk(s) ==
    LET digits == IF s # <<>> /\ s[1] \in {"+", "-"} THEN Tail(s) ELSE s
    IN  digits # <<>> /\ \A i \in DOMAIN digits : IsDigit(digits[i])

\* One "key=value" of a query: the pair url.ParseQuery keeps, if it keeps one.
PairOk(p) ==
    LET eq == IndexFrom(p, 1, <<"=">>)
        k == IF eq = 0 THEN p ELSE SubSeq(p, 1, eq - 1)
        v == IF eq = 0 THEN <<>> ELSE Drop(p, eq)
    IN  /\ p # <<>>
        /\ ~Contains(p, <<";">>)
        /\ PercentValid(k)
        /\ PercentValid(v)

PairKey(p) ==
    LET eq == IndexFrom(p, 1, <<"=">>)
    IN  PercentDecode(IF eq = 0 THEN p ELSE SubSeq(p, 1, eq - 1))

PairValue(p) ==
    LET eq == IndexFrom(p, 1, <<"=">>)
    IN  PercentDecode(IF eq = 0 THEN <<>> ELSE Drop(p, eq))

\* r.URL.Query().Get("id"): the first value of the parameter id, "" if none.
QueryGetId(rawQuery) ==
    LET pairs == Split(rawQuery, "&")
        hits == {i \in DOMAIN pairs : PairOk(pairs[i]) /\ PairKey(pairs[i]) = <<"i", "d">>}
    IN  IF hits = {} THEN <<>>
        ELSE PairValue(pairs[CHOOSE i \in hits : \A j \in hits : i <= j])

\* The last path segment, kept when it is numeric.
PathResource(path) ==
    LET parts == Split(TrimSlashes(path), "/")
        last == parts[Len(parts)]
    IN  IF AtoiOk(last) THEN last ELSE <<>>

\* resource of ContextMiddleware.push; <<>> is "".
ExtractResource_PathOnly(path, rawQuery) == PathResource(path)
ExtractResource(path, rawQuery) ==
    IF QueryGetId(rawQuery) # <<>> THEN QueryGetId(rawQuery) ELSE PathResource(path)

\* The requests clients send: numeric items (one more than the threshold
\* allows), a page with no resource, an item named by the query, and an attack.
ItemsPath == <<"/", "i", "t", "e", "m", "s", "/">>
ScriptPayload == <<"<","s","c","r","i","p","t",">","a","l","e","r","t","(","1",")",
                   "<","/","s","c","r","i","p","t",">">>

NItems == CXThreshold + 1

BaseShapes ==
    [i \in 1..NItems |-> [path |-> ItemsPath \o <<DigitChars[i + 1]>>, query |-> <<>>]]
    \o << [path |-> <<"/", "a", "b", "o", "u", "t">>, query |-> <<>>],
          [path |-> <<"/", "v", "i", "e", "w">>, query |-> <<"i", "d", "=", "1">>],
          [path |-> <<"/", "s">>, query |-> <<"q", "=">> \o ScriptPayload] >>

ShapeIds == DOMAIN BaseShapes

\* Further requests, given by the segments of the path, whether the path
\* ends in a slash, and the parameters of the query in order: r.URL.Path is
\* the segments joined by "/" and r.URL.RawQuery the pairs key=value joined
\* by "&".
SegItems == <<"i", "t", "e", "m", "s">>
ParamId == <<"i", "d">>

Forms ==
    << [segs |-> <<SegItems, <<"7">>>>, slash |-> FALSE, params |-> <<>>],
       [segs |-> <<SegItems, <<"7">>>>, slash |-> FALSE, params |-> <<<<ParamId, <<"9">>>>>>],
       [segs |-> <<SegItems, <<"7">>>>, slash |-> FALSE, params |-> <<<<ParamId, <<>>>>>>],
       [segs |-> <<SegItems, <<"7", "x">>>>, slash |-> FALSE, params |-> <<>>],
       [segs |-> <<<<"7">>, SegItems>>, slash |-> FALSE, params |-> <<>>],
       [segs |-> <<SegItems, <<"-", "3">>>>, slash |-> FALSE, params |-> <<>>],
       [segs |-> <<<<"v", "i", "e", "w">>>>, slash |-> FALSE,
        params |-> <<<<<<"x">>, <<"1">>>>, <<ParamId, <<"a", "b">>>>>>],
       [segs |-> <<SegItems, <<"8">>>>, slash |-> TRUE, params |-> <<>>],
       [segs |-> <<>>, slash |-> FALSE, params |-> <<>>] >>

RECURSIVE JoinPath(_)
JoinPath(segs) == IF segs = <<>> THEN <<>> ELSE <<"/">> \o Head(segs) \o JoinPath(Tail(segs))

RECURSIVE JoinQuery(_)
JoinQuery(params) ==
    IF params = <<>> THEN <<>>
    ELSE Head(params)[1] \o <<"=">> \o Head(params)[2]
         \o (IF Len(params) > 1 THEN <<"&">> ELSE <<>>) \o JoinQuery(Tail(params))

FormShape(f) ==
    [path |-> IF f.segs = <<>> \/ f.slash THEN JoinPath(f.segs) \o <<"/">> ELSE JoinPath(f.segs),
     query |-> JoinQuery(f.params)]

Shapes == BaseShapes \o [i \in DOMAIN Forms |-> FormShape(Forms[i])]

FormShapeIds == DOMAIN Shapes \ ShapeIds

FormOf(sh) == Forms[sh - Len(BaseShapes)]

ShapeResource == [i \in DOMAIN Shapes |-> ExtractResource(Shapes[i].path, Shapes[i].query)]

ShapeHit == [i \in DOMAIN Shapes |-> SignatureHit(Shapes[i].path, Shapes[i].query)]

(***************************************************************************)
(* Client state store (module.go, State and stateStore) and the token      *)
(* bucket of golang.org/x/time/rate as the filters use it.                 *)
(***************************************************************************)
\* rate.NewLimiter(r, b): an empty bucket last filled at the zero time.
NewLimiter(r, b) == [limit |-> r, burst |-> b, tokens |-> 0, last |-> ZeroTime]

\* The tokens of lim at time t (Limiter.advance): the elapsed time since the
\* zero time fills any bucket.
Advance(lim, t) ==
    IF lim.last = ZeroTime THEN lim.burst
    ELSE IF lim.tokens + (t - lim.last) * lim.limit > lim.burst THEN lim.burst
    ELSE lim.tokens + (t - lim.last) * lim.limit

\* Limiter.Allow() at time t: whether a token is granted, and the limiter after.
AllowOk_OffByOne(lim, t) == Advance(lim, t) >= 0
AllowOk(lim, t) == Advance(lim, t) >= 1

AllowAfter(lim, t) ==
    IF AllowOk(lim, t)
    THEN [lim EXCEPT !.tokens = Advance(lim, t) - 1, !.last = t]
    ELSE lim

\* &State{ID, LastSeen: time.Now(), Limiter, Meta} of stateStore.Get; the
\* fields it does not name hold their zero values.  mu is 0 when unlocked,
\* else the goroutine holding it.
NewState(id, t) ==
    [ID |-> id, LastSeen |-> t,
     Limiter |-> NewLimiter(DefaultLimit, DefaultBurst),
     currentLimit |-> 0, currentBurst |-> 0,
     Meta |-> EmptyMap,
     RateLimitViolations |-> 0, LastViolationTime |-> ZeroTime,
     mu |-> 0]

(***************************************************************************)
(* The arithmetic of the filters.                                          *)
(***************************************************************************)
RECURSIVE Pow(_, _)
Pow(b, e) == IF e <= 0 THEN 1 ELSE b * Pow(b, e - 1)

\* time.Duration(float64(base) * math.Pow(multiplier, float64(violations-1)))
EscalatedBan_NoMinusOne(base, multiplier, violations) == base * Pow(multiplier, violations)
EscalatedBan(base, multiplier, violations) == base * Pow(multiplier, violations - 1)

\* The violation counter a violation at time t starts from: zero once more
\* than ttl has passed since the last violation.
CounterBefore_NeverReset(count, last, t, ttl) == count
CounterBefore_ResetsLate(count, last, t, ttl) ==
    IF last # ZeroTime /\ t - last > 2 * ttl THEN 0 ELSE count
CounterBefore(count, last, t, ttl) ==
    IF last # ZeroTime /\ t - last > ttl THEN 0 ELSE count

\* Lines 60-67 of RateLimitMiddleware.push on State st at time t.
RateLimitTouch_ResetsOnAllow(st, t) ==
    LET lim == IF st.currentLimit # RLLimit \/ st.currentBurst # RLBurst
               THEN NewLimiter(RLLimit, RLBurst) ELSE st.Limiter
    IN  [st EXCEPT !.Limiter = AllowAfter(lim, t),
                   !.currentLimit = RLLimit,
                   !.currentBurst = RLBurst,
                   !.LastSeen = t,
                   !.RateLimitViolations = IF AllowOk(lim, t) THEN 0 ELSE @,
                   !.LastViolationTime = IF AllowOk(lim, t) THEN ZeroTime ELSE @]
RateLimitTouch(st, t) ==
    LET lim == IF st.currentLimit # RLLimit \/ st.currentBurst # RLBurst
               THEN NewLimiter(RLLimit, RLBurst) ELSE st.Limiter
    IN  [st EXCEPT !.Limiter = AllowAfter(lim, t),
                   !.currentLimit = RLLimit,
                   !.currentBurst = RLBurst,
                   !.LastSeen = t]

RateLimitAllowed(st, t) ==
    AllowOk(IF st.currentLimit # RLLimit \/ st.currentBurst # RLBurst
            THEN NewLimiter(RLLimit, RLBurst) ELSE st.Limiter, t)

\* Lines 76-85 of RateLimitMiddleware.push.
RateLimitViolation(st, t) ==
    [st EXCEPT !.RateLimitViolations =
                   CounterBefore(st.RateLimitViolations, st.LastViolationTime, t,
                                 RLViolationResetTTL) + 1,
               !.LastViolationTime = t]

\* resources of ContextMiddleware.push: st.Meta["resources"], or a new map.
ResourcesOf(st) ==
    IF "resources" \in DOMAIN st.Meta THEN st.Meta["resources"] ELSE EmptyMap

\* resources[resource] = now
RecordAccess_PerRequest(resources, resource, t) ==
    MapStore(resources,
             resource \o [i \in 1..Cardinality(DOMAIN resources) |-> "+"], t)
RecordAccess(resources, resource, t) == MapStore(resources, resource, t)

\* The clean-up loop: entries older than the window are deleted.
Prune_Inclusive(resources, t, window) ==
    [k \in {x \in DOMAIN resources : t - resources[x] < window} |-> resources[k]]
Prune(resources, t, window) ==
    [k \in {x \in DOMAIN resources : ~(t - resources[x] > window)} |-> resources[k]]

\* Lines 98-121 of ContextMiddleware.push.
ContextTouch(st, resource, t) ==
    LET recorded == IF resource # <<>> THEN RecordAccess(ResourcesOf(st), resource, t)
                    ELSE ResourcesOf(st)
    IN  [st EXCEPT !.Meta = MapStore(st.Meta, "resources", Prune(recorded, t, CXWindow)),
                   !.LastSeen = t]

\* The sizes the resources map goes through in lines 109-118: as found, with
\* the resource recorded, and down to what the pruning leaves.
SizesDuring(st, resource, t) ==
    LET recorded == IF resource # <<>> THEN RecordAccess(ResourcesOf(st), resource, t)
                    ELSE ResourcesOf(st)
        kept == Prune(recorded, t, CXWindow)
    IN  {Cardinality(DOMAIN ResourcesOf(st))}
        \cup (Cardinality(DOMAIN kept)..Cardinality(DOMAIN recorded))

\* uniqueCount > m.threshold
ExceedsThreshold_AtLeast(count, threshold) == count >= threshold
ExceedsThreshold(count, threshold) == count > threshold

BolaViolations(st) ==
    IF "bola_violations" \in DOMAIN st.Meta THEN st.Meta["bola_violations"] ELSE 0

LastBolaViolationTime(st) ==
    IF "last_bola_violation_time" \in DOMAIN st.Meta
    THEN st.Meta["last_bola_violation_time"] ELSE ZeroTime

\* Lines 130-149 of ContextMiddleware.push.
ContextViolation_SharedCounter(st, t) ==
    LET n == CounterBefore(st.RateLimitViolations, st.LastViolationTime, t,
                           CXViolationResetTTL) + 1
    IN  [st EXCEPT !.Meta = MapStore(MapStore(st.Meta, "bola_violations", n),
                                     "last_bola_violation_time", t),
                   !.RateLimitViolations = n,
                   !.LastViolationTime = t]
ContextViolation(st, t) ==
    LET n == CounterBefore(BolaViolations(st), LastBolaViolationTime(st), t,
                           CXViolationResetTTL) + 1
    IN  [st EXCEPT !.Meta = MapStore(MapStore(st.Meta, "bola_violations", n),
                                     "last_bola_violation_time", t)]

\* Lines 166-168 of ContextMiddleware.push.
ContextReset_Keep(st) == st
ContextReset_CounterOnly(st) == [st EXCEPT !.Meta = MapStore(st.Meta, "bola_violations", 0)]
ContextReset(st) ==
    [st EXCEPT !.Meta = MapStore(MapStore(st.Meta, "bola_violations", 0),
                                 "last_bola_violation_time", ZeroTime)]

\* SignatureMiddleware: m.waf.bans.Ban(ip, m.banDuration), whatever came before.
SignatureBan_Escalating(earlierHits) == SGBanDuration * Pow(2, earlierHits)
SignatureBan(earlierHits) == SGBanDuration

(***************************************************************************)
(* The registry driven directly: any sequence of Ban and IsBanned calls.   *)
(***************************************************************************)
NoCall == [op |-> "none", id |-> "", val |-> FALSE, at |-> ZeroTime, d |-> 0, before |-> EmptyMap]

\* One request being served.  pc is the next step of the handler; st is the
\* *State the filter holds (0 is nil); entering says that the filter at pos
\* has been handed the request and has not acted yet.  touchedAt,
\* violatedAt and trail are history: the clock when the filter recorded the
\* request, the clock when it found the violation, and the filters that
\* have been handed the request, in the order they were.  sizes is what
\* len(resources) can yield to a goroutine that reads it while this one is
\* inside lines 97-122.
Idle ==
    [pc |-> "idle", id |-> "", sh |-> 0, pos |-> 0, entering |-> FALSE, st |-> 0,
     allowed |-> FALSE, uniqueCount |-> 0, banDuration |-> 0, violationCount |-> 0,
     out |-> "none", by |-> "none", retry |-> <<>>, forwards |-> 0,
     touchedAt |-> ZeroTime, violatedAt |-> ZeroTime, trail |-> <<>>, sizes |-> {}]

\* What the properties remember of an identifier, none of it read by the
\* filters:
\*   asked         the one resource all its requests have named, if they agree
\*   askedSeveral  its requests have named several resources, or none
\*   nAsked        how many requests have named that one resource
\*   lastAccess    resource -> the last time the anomaly filter recorded it
\*   rlOpen        no time has passed since the rate-limit filter first saw it
\*   rlSeen        the rate-limit filter has seen it
\*   rlCalls, rlPasses   the Allow() calls made while rlOpen, and those granted
\*   rlPrevAt, rlPrevN   its last rate-limit violation: when, and which in a row
\*   cxPrevAt, cxPrevN   its last anomaly violation: when, and which in a row
\*   cxStreak      which in a row, a passed request starting a new row
\*   cxPassedSince the anomaly filter has passed a request since cxPrevAt
\*   sgHits        the signature matches it has had
NoHistory ==
    [asked |-> {}, askedSeveral |-> FALSE, nAsked |-> 0, lastAccess |-> EmptyMap,
     rlOpen |-> FALSE, rlSeen |-> FALSE, rlCalls |-> 0, rlPasses |-> 0,
     rlPrevAt |-> ZeroTime, rlPrevN |-> 0,
     cxPrevAt |-> ZeroTime, cxPrevN |-> 0, cxStreak |-> 0, cxPassedSince |-> FALSE,
     sgHits |-> 0]

\* Which violation in a row one at time `at` is, rows being broken by more
\* than ttl without a violation.
NthInARow(prevAt, prevN, at, ttl) ==
    IF prevAt = ZeroTime \/ at - prevAt > ttl THEN 1 ELSE prevN + 1

\* base * multiplier^(n-1), by repeated multiplication.
RECURSIVE Geometric(_, _, _)
Geometric(base, multiplier, n) ==
    IF n <= 1 THEN base ELSE multiplier * Geometric(base, multiplier, n - 1)

\* The chain RunWithConfig registers for a configured list of names: the
\* default when the list is empty, unknown names skipped.
DefaultChain == <<"context", "rate_limit", "signature">>

KnownFilters == {"context", "rate_limit", "signature", "somecheck"}

RECURSIVE KeepKnown(_)
KeepKnown(names) ==
    IF names = <<>> THEN <<>>
    ELSE IF names[1] \in KnownFilters THEN <<names[1]>> \o KeepKnown(Tail(names))
    ELSE KeepKnown(Tail(names))

BuildChain(names) == KeepKnown(IF Len(names) > 0 THEN names ELSE DefaultChain)

\* The configured lists tried: each filter alone in front of the proxy.
ChainConfigs == {
    <<"rate_limit">>,
    <<"context">>,
    <<"signature", "bogus">> }

\* NewWAF and RunWithConfig for one of `configs`, with the goroutines
\* `slots` serving the requests of the identifiers `ids`.
InitOf(configs, slots, ids) ==
    /\ now = 1
    /\ bans = EmptyMap
    /\ lastBan = EmptyMap
    /\ ret = NoCall
    /\ chain \in {BuildChain(c) : c \in configs}
    /\ store = EmptyMap
    /\ heap = <<>>
    /\ req = [q \in slots |-> Idle]
    /\ hist = [i \in ids |-> NoHistory]

InitWith(configs) == InitOf(configs, Slots, ReqIds)

InitBan == InitWith({<<>>})

\* The clock moves, at any point of any handler, up to `limit`.
TickTo(limit) ==
    /\ now < limit
    /\ now' = now + 1
    /\ hist' = [i \in DOMAIN hist |->
                  [hist[i] EXCEPT !.rlOpen = FALSE, !.rlCalls = 0, !.rlPasses = 0]]
    /\ UNCHANGED <<bans, lastBan, ret, chain, store, heap, req>>

Tick == TickTo(MaxTime)

CallBan(id, d) ==
    /\ bans' = BanStore(bans, id, now, d)
    /\ lastBan' = MapStore(lastBan, id, now + d)
    /\ ret' = [op |-> "Ban", id |-> id, val |-> FALSE, at |-> now, d |-> d, before |-> bans]
    /\ UNCHANGED <<now, wafVars>>

CallIsBanned(id) ==
    /\ bans' = IsBannedAfter(bans, id, now)
    /\ ret' = [op |-> "IsBanned", id |-> id, val |-> IsBannedValue(bans, id, now),
               at |-> now, d |-> 0, before |-> bans]
    /\ UNCHANGED <<now, lastBan, wafVars>>

NextBan ==
    \/ Tick
    \/ \E id \in Ids, d \in 0..MaxDur : CallBan(id, d)
    \/ \E id \in Ids : CallIsBanned(id)

BanSpec == InitBan /\ [][NextBan]_vars

(***************************************************************************)
(* The pipeline: WAF.Handler wraps the proxy so that chain[1] is outermost. *)
(* Each action is one step of the goroutine q serving a request; a step    *)
(* holds at most one access to the shared registries or one critical       *)
(* section of a State.                                                     *)
(***************************************************************************)
\* Every filter begins with m.waf.bans.IsBanned(id).
FilterEntry_NoBanCheck(name) == IF name = "signature" THEN "sg_match" ELSE "get"
FilterEntry(name) == "ban_check"

\* What follows the ban check in each filter.
AfterBanCheck(name) == IF name = "signature" THEN "sg_match" ELSE "get"

\* What follows states.Get in each filter.
AfterGet(name) == IF name = "rate_limit" THEN "rl_lock" ELSE "cx_lock"

\* handler = w.middlewares[i].push(handler), from the last registered to the
\* first: the first registered is outermost.
Filter_LastOutermost(r) == chain[Len(chain) + 1 - r.pos]
Filter(r) == chain[r.pos]

EntryPc(pos) == IF pos > Len(chain) THEN "forward" ELSE FilterEntry(chain[pos])

\* next.ServeHTTP(w, r): the request is handed to the next stage.
NextStage(r) ==
    [r EXCEPT !.pos = r.pos + 1, !.pc = EntryPc(r.pos + 1), !.entering = TRUE,
              !.st = 0, !.allowed = FALSE, !.uniqueCount = 0,
              !.trail = IF r.pos + 1 > Len(chain) THEN r.trail
                        ELSE Append(r.trail, Filter([r EXCEPT !.pos = r.pos + 1]))]

\* http.Error(w, ...): the request ends here.
Reject_StillForwards(r, out, by, retry) ==
    [r EXCEPT !.pc = "done", !.entering = FALSE, !.out = out, !.by = by, !.retry = retry,
              !.forwards = r.forwards + 1]
Reject(r, out, by, retry) ==
    [r EXCEPT !.pc = "done", !.entering = FALSE, !.out = out, !.by = by, !.retry = retry]

\* banDuration.Seconds(), a tick being a minute
Seconds_Rounded(d) == IF d > 1 THEN (d - 1) * 60 ELSE d * 60
Seconds(d) == d * 60

Resource(r) == ShapeResource[r.sh]

Receive(q, id, sh) ==
    /\ req[q].pc = "idle"
    /\ req' = [req EXCEPT ![q] = NextStage([Idle EXCEPT !.id = id, !.sh = sh])]
    /\ hist' = [hist EXCEPT ![id] =
                  LET all == @.asked \cup {ShapeResource[sh]}
                  IN  IF @.askedSeveral \/ Cardinality(all) > 1 \/ ShapeResource[sh] = <<>>
                      THEN [@ EXCEPT !.asked = {}, !.askedSeveral = TRUE, !.nAsked = 0]
                      ELSE [@ EXCEPT !.asked = all,
                                     !.nAsked = IF @ > CXThreshold THEN @ ELSE @ + 1]]
    /\ UNCHANGED <<now, regVars, chain, store, heap>>

Arrive(q, id, sh) ==
    /\ Receive(q, id, sh)
    /\ UNCHANGED ret

\* IsBanned: b.m.Load(id) and the comparison with time.Now().
BanCheck(q) ==
    LET r == req[q]
        v == BanLookup(bans, r.id, now)
    IN  /\ r.pc = "ban_check"
        /\ req' = [req EXCEPT ![q] =
                     IF v = "banned" THEN Reject(r, "forbidden", "ban", <<>>)
                     ELSE [r EXCEPT !.entering = FALSE,
                                    !.pc = IF v = "expired" THEN "ban_delete"
                                           ELSE AfterBanCheck(Filter(r))]]
        /\ UNCHANGED <<now, regVars, ret, chain, store, heap, hist>>

\* IsBanned: b.m.Delete(id) of the entry seen expired.
BanDelete(q) ==
    LET r == req[q]
    IN  /\ r.pc = "ban_delete"
        /\ bans' = BanExpire(bans, r.id)
        /\ req' = [req EXCEPT ![q].pc = AfterBanCheck(Filter(r))]
        /\ UNCHANGED <<now, lastBan, ret, chain, store, heap, hist>>

\* stateStore.Get: the nil of the empty identifier, or s.store.Load(id).
GetLoad(q) ==
    LET r == req[q]
    IN  /\ r.pc = "get"
        /\ req' = [req EXCEPT ![q] =
                     IF r.id = "" THEN NextStage(r)
                     ELSE IF r.id \in DOMAIN store
                          THEN [r EXCEPT !.entering = FALSE, !.st = store[r.id],
                                         !.pc = AfterGet(Filter(r))]
                     ELSE [r EXCEPT !.entering = FALSE, !.pc = "get_store"]]
        /\ UNCHANGED <<now, regVars, ret, chain, store, heap, hist>>

\* stateStore.Get: the new State and s.store.Store(id, st).
GetStore(q) ==
    LET r == req[q]
    IN  /\ r.pc = "get_store"
        /\ heap' = Append(heap, NewState(r.id, now))
        /\ store' = MapStore(store, r.id, Len(heap) + 1)
        /\ req' = [req EXCEPT ![q].st = Len(heap) + 1, ![q].pc = AfterGet(Filter(r))]
        /\ UNCHANGED <<now, regVars, ret, chain, hist>>

\* st.mu.Unlock()
Unlock_KeepsLock(q, from, to) ==
    LET r == req[q]
    IN  /\ r.pc = from
        /\ heap[r.st].mu = q
        /\ req' = [req EXCEPT ![q].pc = to, ![q].sizes = {}]
        /\ UNCHANGED <<now, regVars, ret, chain, store, heap, hist>>
Unlock(q, from, to) ==
    LET r == req[q]
    IN  /\ r.pc = from
        /\ heap[r.st].mu = q
        /\ heap' = [heap EXCEPT ![r.st].mu = 0]
        /\ req' = [req EXCEPT ![q].pc = to, ![q].sizes = {}]
        /\ UNCHANGED <<now, regVars, ret, chain, store, hist>>

\* b.Ban(id, d) with the response that goes with it.
BanAndReject(q, from, d, out, by, retry) ==
    LET r == req[q]
    IN  /\ r.pc = from
        /\ bans' = BanStore(bans, r.id, now, d)
        /\ lastBan' = MapStore(lastBan, r.id, now + d)
        /\ req' = [req EXCEPT ![q] = Reject(r, out, by, retry)]
        /\ UNCHANGED <<now, ret, chain, store, heap>>

(* Rate limit filter ----------------------------------------------------- *)
\* st.mu.Lock() and lines 61-67: the limiter, Allow(), LastSeen.
RLLock(q) ==
    LET r == req[q]
        st == heap[r.st]
        h == hist[r.id]
        open == h.rlOpen \/ ~h.rlSeen
        ok == RateLimitAllowed(st, now)
    IN  /\ r.pc = "rl_lock"
        /\ st.mu = 0
        /\ heap' = [heap EXCEPT ![r.st] = [RateLimitTouch(st, now) EXCEPT !.mu = q]]
        /\ req' = [req EXCEPT ![q].allowed = ok, ![q].pc = "rl_unlock"]
        /\ hist' = [hist EXCEPT ![r.id] =
                      IF open
                      THEN [h EXCEPT !.rlOpen = TRUE, !.rlSeen = TRUE,
                                     !.rlCalls = h.rlCalls + 1,
                                     !.rlPasses = h.rlPasses + (IF ok THEN 1 ELSE 0)]
                      ELSE h]
        /\ UNCHANGED <<now, regVars, ret, chain, store>>

\* st.mu.Unlock() of line 68, then the test of allowed.
RLUnlock(q) ==
    /\ req[q].pc = "rl_unlock"
    /\ heap[req[q].st].mu = q
    /\ heap' = [heap EXCEPT ![req[q].st].mu = 0]
    /\ req' = [req EXCEPT ![q] = IF req[q].allowed THEN NextStage(req[q])
                                 ELSE [req[q] EXCEPT !.pc = "rl_viol"]]
    /\ UNCHANGED <<now, regVars, ret, chain, store, hist>>

\* st.mu.Lock() and lines 76-90: the counter and the duration of the ban.
RLViolation(q) ==
    LET r == req[q]
        st == heap[r.st]
        after == RateLimitViolation(st, now)
    IN  /\ r.pc = "rl_viol"
        /\ st.mu = 0
        /\ heap' = [heap EXCEPT ![r.st] = [after EXCEPT !.mu = q]]
        /\ req' = [req EXCEPT ![q].violationCount = after.RateLimitViolations,
                              ![q].banDuration =
                                  EscalatedBan(RLBanDuration, RLMultiplier,
                                               after.RateLimitViolations),
                              ![q].violatedAt = now,
                              ![q].pc = "rl_viol_unlock"]
        /\ UNCHANGED <<now, regVars, ret, chain, store, hist>>

RLViolationUnlock(q) == Unlock(q, "rl_viol_unlock", "rl_ban")

\* Lines 94-98: Ban, Retry-After, 429.
RLBan(q) ==
    /\ BanAndReject(q, "rl_ban", req[q].banDuration, "too_many_requests", "rate_limit",
                    <<Seconds(req[q].banDuration)>>)
    /\ hist' = [hist EXCEPT ![req[q].id].rlPrevAt = req[q].violatedAt,
                            ![req[q].id].rlPrevN =
                                NthInARow(hist[req[q].id].rlPrevAt, @, req[q].violatedAt,
                                          RLViolationResetTTL)]

(* Anomaly filter -------------------------------------------------------- *)
\* st.mu.Lock() and lines 98-121: record, prune, LastSeen.
CXLock(q) ==
    LET r == req[q]
        st == heap[r.st]
    IN  /\ r.pc = "cx_lock"
        /\ st.mu = 0
        /\ heap' = [heap EXCEPT ![r.st] = [ContextTouch(st, Resource(r), now) EXCEPT !.mu = q]]
        /\ req' = [req EXCEPT ![q].pc = "cx_unlock", ![q].touchedAt = now,
                              ![q].sizes = SizesDuring(st, Resource(r), now)]
        /\ hist' = [hist EXCEPT ![r.id].lastAccess =
                      IF Resource(r) # <<>> THEN MapStore(@, Resource(r), now) ELSE @]
        /\ UNCHANGED <<now, regVars, ret, chain, store>>

CXUnlock(q) == Unlock(q, "cx_unlock", "cx_count")

\* Lines 125-126: len(resources), read with the lock released.  While
\* another goroutine is inside lines 97-122 on the same State the read races
\* with its writes and yields any of the sizes the map goes through.
CXCount(q) ==
    LET r == req[q]
        writers == {p \in DOMAIN req \ {q} : req[p].pc = "cx_unlock" /\ req[p].st = r.st}
        seen == {Cardinality(DOMAIN ResourcesOf(heap[r.st]))}
                \cup UNION {req[p].sizes : p \in writers}
    IN  /\ r.pc = "cx_count"
        /\ \E n \in seen :
              req' = [req EXCEPT ![q].uniqueCount = n,
                                 ![q].pc = IF ExceedsThreshold(n, CXThreshold)
                                           THEN "cx_viol" ELSE "cx_reset"]
        /\ UNCHANGED <<now, regVars, ret, chain, store, heap, hist>>

\* st.mu.Lock() and lines 130-153: the counter and the duration of the ban.
CXViolation(q) ==
    LET r == req[q]
        st == heap[r.st]
        after == ContextViolation(st, now)
        d == EscalatedBan(CXBanDuration, CXMultiplier, BolaViolations(after))
    IN  /\ r.pc = "cx_viol"
        /\ st.mu = 0
        /\ heap' = [heap EXCEPT ![r.st] = [after EXCEPT !.mu = q]]
        /\ req' = [req EXCEPT ![q].violationCount = BolaViolations(after),
                              ![q].banDuration = d,
                              ![q].violatedAt = now,
                              ![q].pc = "cx_viol_unlock"]
        /\ UNCHANGED <<now, regVars, ret, chain, store, hist>>

CXViolationUnlock(q) == Unlock(q, "cx_viol_unlock", "cx_ban")

\* Lines 156-162: Ban, Retry-After, 403.
CXBan(q) ==
    /\ BanAndReject(q, "cx_ban", req[q].banDuration, "forbidden", "context",
                    <<Seconds(req[q].banDuration)>>)
    /\ LET h == hist[req[q].id]
           at == req[q].violatedAt
       IN  hist' = [hist EXCEPT ![req[q].id] =
                     [h EXCEPT !.cxPrevAt = at,
                               !.cxPrevN = NthInARow(h.cxPrevAt, h.cxPrevN, at,
                                                     CXViolationResetTTL),
                               !.cxStreak = IF h.cxPassedSince THEN 1
                                            ELSE NthInARow(h.cxPrevAt, h.cxStreak, at,
                                                           CXViolationResetTTL),
                               !.cxPassedSince = FALSE]]

\* st.mu.Lock() and lines 167-168: the counters of a request that passes.
CXReset(q) ==
    LET r == req[q]
        st == heap[r.st]
    IN  /\ r.pc = "cx_reset"
        /\ st.mu = 0
        /\ heap' = [heap EXCEPT ![r.st] = [ContextReset(st) EXCEPT !.mu = q]]
        /\ req' = [req EXCEPT ![q].pc = "cx_reset_unlock"]
        /\ hist' = [hist EXCEPT ![r.id].cxPassedSince = (@ \/ hist[r.id].cxPrevAt # ZeroTime)]
        /\ UNCHANGED <<now, regVars, ret, chain, store>>

\* st.mu.Unlock() of line 169, then next.ServeHTTP.
CXResetUnlock(q) ==
    /\ req[q].pc = "cx_reset_unlock"
    /\ heap[req[q].st].mu = q
    /\ heap' = [heap EXCEPT ![req[q].st].mu = 0]
    /\ req' = [req EXCEPT ![q] = NextStage(req[q])]
    /\ UNCHANGED <<now, regVars, ret, chain, store, hist>>

(* Signature filter ------------------------------------------------------ *)
\* Lines 71-95: normalise the candidates, match the rules; on a match Ban,
\* Retry-After and 403.
SGMatch(q) ==
    LET r == req[q]
    IN  /\ r.pc = "sg_match"
        /\ IF ShapeHit[r.sh]
           THEN /\ bans' = BanStore(bans, r.id, now, SignatureBan(hist[r.id].sgHits))
                /\ lastBan' = MapStore(lastBan, r.id, now + SignatureBan(hist[r.id].sgHits))
                /\ req' = [req EXCEPT ![q] =
                             [Reject(r, "forbidden", "signature", <<SGRetryAfter>>)
                                 EXCEPT !.violatedAt = now]]
                /\ hist' = [hist EXCEPT ![r.id].sgHits = @ + 1]
           ELSE /\ req' = [req EXCEPT ![q] = NextStage(r)]
                /\ UNCHANGED <<regVars, hist>>
        /\ UNCHANGED <<now, ret, chain, store, heap>>

(* The proxy and the end of a request ------------------------------------ *)
\* w.proxy.ServeHTTP: the forwarding collaborator.
Forward(q) ==
    /\ req[q].pc = "forward"
    /\ req' = [req EXCEPT ![q].pc = "done", ![q].entering = FALSE,
                          ![q].out = "forwarded", ![q].forwards = @ + 1]
    /\ UNCHANGED <<now, regVars, ret, chain, store, heap, hist>>

\* The handler has returned; the goroutine takes the next request.
Finish(q) ==
    /\ req[q].pc = "done"
    /\ req' = [req EXCEPT ![q] = Idle]
    /\ UNCHANGED <<now, regVars, ret, chain, store, heap, hist>>

\* The steps of the goroutine q on the request it is serving.
Handle(q) ==
    \/ BanCheck(q)
    \/ BanDelete(q)
    \/ GetLoad(q)
    \/ GetStore(q)
    \/ RLLock(q)
    \/ RLUnlock(q)
    \/ RLViolation(q)
    \/ RLViolationUnlock(q)
    \/ RLBan(q)
    \/ CXLock(q)
    \/ CXUnlock(q)
    \/ CXCount(q)
    \/ CXViolation(q)
    \/ CXViolationUnlock(q)
    \/ CXBan(q)
    \/ CXReset(q)
    \/ CXResetUnlock(q)
    \/ SGMatch(q)
    \/ Forward(q)
    \/ Finish(q)

Step(q) ==
    \/ \E id \in ReqIds, sh \in ShapeIds : Arrive(q, id, sh)
    \/ Handle(q)

Next ==
    \/ Tick
    \/ \E q \in Slots : Step(q)

Init == InitWith(ChainConfigs)

\* Requests served one at a time by one goroutine, each filter in turn being
\* the chain.
Spec == Init /\ [][Next]_vars

(***************************************************************************)
(* C1: IsBanned(id) returns true exactly when the clock is strictly before *)
(* the expiry written by the most recent Ban(id, d), and false at or after *)
(* it, and false for an identifier that was never banned.                  *)
(***************************************************************************)
C1_IsBannedIffBeforeLastExpiry ==
    ret.op = "IsBanned" =>
        (ret.val <=> (ret.id \in DOMAIN lastBan /\ ret.at < lastBan[ret.id]))

\* IsBanned has answered false at the very instant of the expiry of a ban.
C1_Witness ==
    /\ ret.op = "IsBanned"
    /\ ret.id \in DOMAIN lastBan
    /\ ret.at = lastBan[ret.id]
    /\ ret.val = FALSE
    /\ ret.id \notin DOMAIN bans

(***************************************************************************)
(* C2: Ban(id, d) replaces any entry of id by now + d (last writer wins,   *)
(* shorter or longer, never the maximum) and leaves the entries of the     *)
(* other identifiers as they were.                                         *)
(***************************************************************************)
C2_BanOverwrites ==
    ret.op = "Ban" /\ ret.at = now =>
        /\ ret.id \in DOMAIN bans
        /\ bans[ret.id] = ret.at + ret.d
        /\ \A o \in Ids \ {ret.id} :
              /\ (o \in DOMAIN bans) <=> (o \in DOMAIN ret.before)
              /\ o \in DOMAIN bans => bans[o] = ret.before[o]

\* A second Ban with a shorter duration has shortened a ban still in force,
\* while another identifier holds an entry.
C2_Witness ==
    /\ ret.op = "Ban"
    /\ ret.at = now
    /\ ret.id \in DOMAIN ret.before
    /\ ret.before[ret.id] > now
    /\ bans[ret.id] < ret.before[ret.id]
    /\ \E o \in Ids \ {ret.id} : o \in DOMAIN bans

(***************************************************************************)
(* The signature filter's normalization and rules driven directly: a raw   *)
(* query is drawn, normalized as push normalizes a candidate, and matched  *)
(* against the rules.                                                      *)
(***************************************************************************)
SigMaxFragments == 2

HexDigitChars == DigitChars \o <<"A", "B", "C", "D", "E", "F">>

\* s with every character that is no letter or digit written %XX, as a
\* client escapes a query component.
RECURSIVE PercentEncode(_)
PercentEncode(s) ==
    IF s = <<>> THEN <<>>
    ELSE LET c == s[1]
             n == IndexIn(AsciiChars, c) + 31
         IN  (IF IsAlnum(c) THEN <<c>>
              ELSE <<"%", HexDigitChars[(n \div 16) + 1], HexDigitChars[(n % 16) + 1]>>)
             \o PercentEncode(Tail(s))

\* s with the characters of markup written as character references.
RECURSIVE EntityEncode(_)
EntityEncode(s) ==
    IF s = <<>> THEN <<>>
    ELSE (CASE s[1] = "<" -> <<"&", "l", "t", ";">>
            [] s[1] = ">" -> <<"&", "g", "t", ";">>
            [] s[1] = "&" -> <<"&", "a", "m", "p", ";">>
            [] OTHER -> <<s[1]>>)
         \o EntityEncode(Tail(s))

\* The forms in which the payload arrives.
PayloadForms == {"raw", "percent", "entity"}

Encoded(form) ==
    CASE form = "raw" -> ScriptPayload
      [] form = "percent" -> PercentEncode(ScriptPayload)
      [] form = "entity" -> EntityEncode(ScriptPayload)

\* What precedes and what follows the payload in the query string.
SigPrefixes == {
    <<>>,
    <<"q", "=">>,
    <<"q", "=", "-", "-">>,
    <<"q", "=", "/", "*">>,
    <<"a", "=", "%", "z", "z", "&", "q", "=">>,
    <<"a", "=", "1", "+", "2", "&", "q", "=">> }

SigSuffixes == {
    <<>>,
    <<"&", "n", "=", "1">>,
    <<"*", "/">>,
    <<"-", "-", ">">> }

\* Words of letters and digits, some of them the key words of the rules.
AlnumWords == {
    <<"s","e","l","e","c","t">>, <<"u","n","i","o","n">>, <<"s","c","r","i","p","t">>,
    <<"o","n","e","r","r","o","r">>, <<"j","a","v","a","s","c","r","i","p","t">>,
    <<"x">>, <<"1">>, <<"Z","9">> }

RECURSIVE AlnumQueries(_)
AlnumQueries(n) ==
    IF n = 0 THEN {<<>>}
    ELSE LET shorter == AlnumQueries(n - 1)
         IN  shorter \cup {a \o w : a \in shorter, w \in AlnumWords}

SigInputs ==
    {[op |-> "query", form |-> f, query |-> pre \o Encoded(f) \o post,
      normalized |-> <<>>, hit |-> FALSE] :
        f \in PayloadForms, pre \in SigPrefixes, post \in SigSuffixes}
    \cup
    {[op |-> "query", form |-> "alnum", query |-> a, normalized |-> <<>>, hit |-> FALSE] :
        a \in AlnumQueries(SigMaxFragments) \ {<<>>}}

InitSig ==
    /\ now = 1
    /\ bans = EmptyMap
    /\ lastBan = EmptyMap
    /\ ret \in SigInputs
    /\ chain = BuildChain(<<"signature">>)
    /\ store = EmptyMap
    /\ heap = <<>>
    /\ req = [q \in Slots |-> Idle]
    /\ hist = [i \in ReqIds |-> NoHistory]

\* candidates[i] = normalizeForSignature(s), for the raw query
CallNormalize ==
    /\ ret.op = "query"
    /\ ret' = [ret EXCEPT !.op = "normalized", !.normalized = NormalizeForSignature(ret.query)]
    /\ UNCHANGED <<now, regVars, wafVars>>

\* rule.MatchString(normalized) over m.rules
CallMatch ==
    /\ ret.op = "normalized"
    /\ ret' = [ret EXCEPT !.op = "matched", !.hit = MatchesAnyRule(ret.normalized)]
    /\ UNCHANGED <<now, regVars, wafVars>>

NextSig == CallNormalize \/ CallMatch

SigSpec == InitSig /\ [][NextSig]_vars

(***************************************************************************)
(* The pipeline behind chains of several filters, one goroutine serving    *)
(* the requests of an identifier and of the empty identifier (extractIP of *)
(* an empty RemoteAddr).  ret keeps the list of names RunWithConfig was    *)
(* given.                                                                  *)
(***************************************************************************)
ChainMaxTime == 2

ChainIds == {"a", ""}

\* cfg.MiddlewareChain: none, and lists with an unknown name among the known.
ConfiguredChains == {
    <<>>,
    <<"signature", "bogus", "rate_limit">> }

\* The requests sent through the chains: the items and the attack.
ChainShapeIds == {i \in ShapeIds : ShapeHit[i] \/ i <= NItems}

InitChain ==
    /\ now = 1
    /\ bans = EmptyMap
    /\ lastBan = EmptyMap
    /\ \E c \in ConfiguredChains :
          /\ ret = [op |-> "RunWithConfig", names |-> c]
          /\ chain = BuildChain(c)
    /\ store = EmptyMap
    /\ heap = <<>>
    /\ req = [q \in Slots |-> Idle]
    /\ hist = [i \in ChainIds |-> NoHistory]

ChainStep(q) ==
    \/ \E id \in ChainIds, sh \in ChainShapeIds : Arrive(q, id, sh)
    \/ Handle(q)

NextChain ==
    \/ TickTo(ChainMaxTime)
    \/ \E q \in Slots : ChainStep(q)

ChainSpec == InitChain /\ [][NextChain]_vars

(***************************************************************************)
(* One client against the default chain with the default order: it sends   *)
(* /items/1, /items/2, ... up to one more than the anomaly threshold, each *)
(* once the one before has been answered, and then one more request of any *)
(* shape.  ret holds the client's side: how many requests it has sent and  *)
(* the clock at the first.                                                 *)
(***************************************************************************)
E2EMaxTime == 4

InitE2E ==
    /\ now = 1
    /\ bans = EmptyMap
    /\ lastBan = EmptyMap
    /\ ret = [op |-> "client", sent |-> 0, start |-> ZeroTime]
    /\ chain = BuildChain(<<>>)
    /\ store = EmptyMap
    /\ heap = <<>>
    /\ req = [q \in Slots |-> Idle]
    /\ hist = [i \in ReqIds |-> NoHistory]

Send(q) ==
    /\ ret.sent < NItems + 1
    /\ \E id \in ReqIds :
          \E sh \in IF ret.sent < NItems THEN {ret.sent + 1} ELSE ShapeIds :
              Receive(q, id, sh)
    /\ ret' = [ret EXCEPT !.sent = @ + 1, !.start = IF ret.sent = 0 THEN now ELSE @]

E2EStep(q) == Send(q) \/ Handle(q)

NextE2E == TickTo(E2EMaxTime) \/ \E q \in Slots : E2EStep(q)

E2ESpec == InitE2E /\ [][NextE2E]_vars

(***************************************************************************)
(* Two goroutines serving requests of one client at the same time, as      *)
(* net/http runs a handler per connection.  Every step between two         *)
(* accesses of shared memory is a step of its own, so the goroutines       *)
(* interleave wherever the locks let them.                                 *)
(***************************************************************************)
RaceMaxTime == 2

Workers == {1, 2}

RaceChains == { <<"rate_limit">>, <<"context">>, <<"signature">> }

RaceShapeIds == {i \in ShapeIds : i <= NItems}

InitRace == InitOf(RaceChains, Workers, ReqIds)

RaceStep(q) ==
    \/ \E id \in ReqIds, sh \in RaceShapeIds : Arrive(q, id, sh)
    \/ Handle(q)

NextRace == TickTo(RaceMaxTime) \/ \E q \in Workers : RaceStep(q)

RaceSpec == InitRace /\ [][NextRace]_vars

(***************************************************************************)
(* The parameters RunWithConfig gives the rate-limit and the anomaly        *)
(* filter (module.go, lines 148-194).  A Config decoded from JSON has the   *)
(* zero value in every field the file does not set; cfg == nil is the       *)
(* absent file.  Durations are in seconds here.                             *)
(***************************************************************************)
CfgMax == 2

\* What a numeric field of a configuration can hold: negative, absent, set.
CfgValues == {-1, 0, CfgMax}

RLDefaultLimit == 5
RLDefaultBurst == 20
RLDefaultBanSeconds == 30
CXDefaultWindowSeconds == 60
CXDefaultThreshold == 20
CXDefaultBanSeconds == 300
DefaultMultiplier == 2
DefaultResetHours == 24
SecondsPerHour == 3600

RateLimitConfig ==
    [Limit : CfgValues, Burst : CfgValues, BanSeconds : CfgValues,
     Multiplier : CfgValues, ViolationResetHrs : CfgValues]

ContextConfig ==
    [WindowSeconds : CfgValues, Threshold : CfgValues, BanSeconds : CfgValues,
     Multiplier : CfgValues, ViolationResetHours : CfgValues]

NilConfig ==
    [nil |-> TRUE,
     RateLimit |-> [Limit |-> 0, Burst |-> 0, BanSeconds |-> 0, Multiplier |-> 0,
                    ViolationResetHrs |-> 0],
     Context |-> [WindowSeconds |-> 0, Threshold |-> 0, BanSeconds |-> 0, Multiplier |-> 0,
                  ViolationResetHours |-> 0]]

Config == [nil : {FALSE}, RateLimit : RateLimitConfig, Context : ContextConfig] \cup {NilConfig}

NewRateLimitMiddleware(limit, burst, ban) ==
    [limit |-> limit, burst |-> burst, banDuration |-> ban,
     multiplier |-> DefaultMultiplier,
     violationResetTTL |-> DefaultResetHours * SecondsPerHour]

NewContextMiddlewareWithConfig(window, threshold, ban) ==
    [window |-> window, threshold |-> threshold, banDuration |-> ban,
     multiplier |-> DefaultMultiplier,
     violationResetTTL |-> DefaultResetHours * SecondsPerHour]

NewContextMiddleware ==
    NewContextMiddlewareWithConfig(CXDefaultWindowSeconds, CXDefaultThreshold,
                                   CXDefaultBanSeconds)

\* case "rate_limit"
ConfiguredRateLimit(cfg) ==
    LET rl == NewRateLimitMiddleware(RLDefaultLimit, RLDefaultBurst, RLDefaultBanSeconds)
        rlc == cfg.RateLimit
    IN  IF cfg.nil THEN rl
        ELSE [limit |-> IF rlc.Limit > 0 THEN rlc.Limit ELSE rl.limit,
              burst |-> IF rlc.Burst > 0 THEN rlc.Burst ELSE rl.burst,
              banDuration |-> IF rlc.BanSeconds > 0 THEN rlc.BanSeconds ELSE rl.banDuration,
              multiplier |-> IF rlc.Multiplier > 0 THEN rlc.Multiplier ELSE rl.multiplier,
              violationResetTTL |-> IF rlc.ViolationResetHrs > 0
                                    THEN rlc.ViolationResetHrs * SecondsPerHour
                                    ELSE rl.violationResetTTL]

\* case "context"
ConfiguredContext(cfg) ==
    IF ~cfg.nil /\ cfg.Context.WindowSeconds > 0
    THEN LET cm == NewContextMiddlewareWithConfig(cfg.Context.WindowSeconds,
                                                  cfg.Context.Threshold,
                                                  cfg.Context.BanSeconds)
         IN  [cm EXCEPT !.multiplier = IF cfg.Context.Multiplier > 0
                                       THEN cfg.Context.Multiplier ELSE @,
                        !.violationResetTTL =
                            IF cfg.Context.ViolationResetHours > 0
                            THEN cfg.Context.ViolationResetHours * SecondsPerHour ELSE @]
    ELSE NewContextMiddleware

\* The filters not registered yet.
NoFilter ==
    [limit |-> 0, burst |-> 0, window |-> 0, threshold |-> 0, banDuration |-> 0,
     multiplier |-> 0, violationResetTTL |-> 0]

InitConfig ==
    /\ now = 1
    /\ bans = EmptyMap
    /\ lastBan = EmptyMap
    /\ \E cfg \in Config :
          ret = [op |-> "LoadConfig", cfg |-> cfg, registered |-> {},
                 rl |-> NoFilter, cm |-> NoFilter]
    /\ chain = <<>>
    /\ store = EmptyMap
    /\ heap = <<>>
    /\ req = [q \in Slots |-> Idle]
    /\ hist = [i \in ReqIds |-> NoHistory]

RegisterRateLimit ==
    /\ ret.op = "LoadConfig"
    /\ "rate_limit" \notin ret.registered
    /\ ret' = [ret EXCEPT !.registered = @ \cup {"rate_limit"},
                          !.rl = ConfiguredRateLimit(ret.cfg) @@ NoFilter]
    /\ UNCHANGED <<now, regVars, chain, store, heap, req, hist>>

RegisterContext ==
    /\ ret.op = "LoadConfig"
    /\ "context" \notin ret.registered
    /\ ret' = [ret EXCEPT !.registered = @ \cup {"context"},
                          !.cm = ConfiguredContext(ret.cfg) @@ NoFilter]
    /\ UNCHANGED <<now, regVars, chain, store, heap, req, hist>>

NextConfig == RegisterRateLimit \/ RegisterContext

ConfigSpec == InitConfig /\ [][NextConfig]_vars

(***************************************************************************)
(* The anomaly filter alone, one request at a time, on the requests given  *)
(* by their segments and parameters.                                       *)
(***************************************************************************)
ResMaxTime == 4

InitRes == InitOf({<<"context">>}, Slots, ReqIds)

ResStep(q) ==
    \/ \E id \in ReqIds, sh \in FormShapeIds : Arrive(q, id, sh)
    \/ BanCheck(q)
    \/ BanDelete(q)
    \/ GetLoad(q)
    \/ GetStore(q)
    \/ CXLock(q)
    \/ CXUnlock(q)
    \/ CXCount(q)
    \/ CXViolation(q)
    \/ CXViolationUnlock(q)
    \/ CXBan(q)
    \/ CXReset(q)
    \/ CXResetUnlock(q)
    \/ Forward(q)
    \/ Finish(q)

NextRes == TickTo(ResMaxTime) \/ \E q \in Slots : ResStep(q)

ResSpec == InitRes /\ [][NextRes]_vars

(***************************************************************************)
(* Two goroutines serving a burst of requests of one client within one     *)
(* reading of the clock, so that no ban expires and IsBanned never         *)
(* deletes.  The Go scheduler runs every runnable goroutine, and a         *)
(* sync.Mutex in starvation mode hands the lock to the goroutine that has   *)
(* waited: a step of a handler that is enabled again and again is taken.   *)
(* Nothing makes a client send a request.                                  *)
(***************************************************************************)
LockChains == { <<"rate_limit">>, <<"context">> }

InitLock == InitOf(LockChains, Workers, ReqIds)

LockHandle(q) ==
    \/ BanCheck(q)
    \/ GetLoad(q)
    \/ GetStore(q)
    \/ RLLock(q)
    \/ RLUnlock(q)
    \/ RLViolation(q)
    \/ RLViolationUnlock(q)
    \/ RLBan(q)
    \/ CXLock(q)
    \/ CXUnlock(q)
    \/ CXCount(q)
    \/ CXViolation(q)
    \/ CXViolationUnlock(q)
    \/ CXBan(q)
    \/ CXReset(q)
    \/ CXResetUnlock(q)
    \/ Forward(q)
    \/ Finish(q)

LockStep(q) ==
    \/ \E id \in ReqIds, sh \in RaceShapeIds : Arrive(q, id, sh)
    \/ LockHandle(q)

NextLock == \E q \in Workers : LockStep(q)

LockFairSpec ==
    /\ InitLock
    /\ [][NextLock]_vars
    /\ \A q \in Workers : SF_vars(LockHandle(q))

(***************************************************************************)
(* The rate-limit filter alone, one request at a time, over a span of the  *)
(* clock long enough for the bans to escalate past the reset window and    *)
(* for the longest of them to expire.                                      *)
(***************************************************************************)
LongMaxTime == 9

InitLong == InitOf({<<"rate_limit">>}, Slots, ReqIds)

LongStep(q) ==
    \/ \E id \in ReqIds : Arrive(q, id, 1)
    \/ BanCheck(q)
    \/ BanDelete(q)
    \/ GetLoad(q)
    \/ GetStore(q)
    \/ RLLock(q)
    \/ RLUnlock(q)
    \/ RLViolation(q)
    \/ RLViolationUnlock(q)
    \/ RLBan(q)
    \/ Forward(q)
    \/ Finish(q)

NextLong == TickTo(LongMaxTime) \/ \E q \in Slots : LongStep(q)

LongSpec == InitLong /\ [][NextLong]_vars

(***************************************************************************)
(* What the properties say of a request in flight.                         *)
(***************************************************************************)
\* The request has been passed on by the filter of that name.
PassedBy(r, name) ==
    \E p \in 1..Len(chain) : chain[p] = name /\ p < r.pos

\* The request is, or has been, inside the filter of that name.
InFilter(r, name) ==
    r.pos \in 1..Len(chain) /\ chain[r.pos] = name

\* The resources of an identifier whose last recorded access lies within the
\* window at time `at`.
InWindow(id, at) ==
    {x \in DOMAIN hist[id].lastAccess : at - hist[id].lastAccess[x] <= CXWindow}

Min(a, b) == IF a < b THEN a ELSE b

(***************************************************************************)
(* C3: in every filter, the first step taken for a request whose           *)
(* identifier is banned (the clock is before the expiry of its last Ban)   *)
(* is the ban check: the request ends there as forbidden, is handed to no  *)
(* later stage and is not forwarded, and the client states and the ban     *)
(* entries are left as they were.                                          *)
(***************************************************************************)
C3_BannedIsRejectedFirst ==
    [][\A q \in Slots :
          LET r == req[q]
          IN  ( /\ r.entering
                /\ r.pos <= Len(chain)
                /\ req'[q] # r
                /\ r.id \in DOMAIN lastBan
                /\ now < lastBan[r.id] )
              => /\ req'[q].pc = "done"
                 /\ req'[q].out = "forbidden"
                 /\ req'[q].by = "ban"
                 /\ req'[q].pos = r.pos
                 /\ req'[q].forwards = 0
                 /\ heap' = heap
                 /\ store' = store
                 /\ bans' = bans]_vars

\* A request of an identifier that has a client state has been turned away
\* by the ban check of the anomaly filter.
C3_Witness ==
    \E q \in Slots :
        /\ req[q].pc = "done"
        /\ req[q].by = "ban"
        /\ req[q].out = "forbidden"
        /\ InFilter(req[q], "context")
        /\ req[q].id \in DOMAIN store
        /\ now < lastBan[req[q].id]

(***************************************************************************)
(* C4: of the requests of a fresh identifier that reach the rate-limit     *)
(* filter with no time passing, the first RLBurst are passed on, each      *)
(* taking one token, and the next one is rejected as too many requests and *)
(* is not forwarded.                                                       *)
(***************************************************************************)
C4_BurstThenReject ==
    \A q \in Slots :
        LET r == req[q]
            h == hist[r.id]
        IN  (r.pc # "idle" /\ h.rlOpen) =>
               /\ h.rlPasses = Min(h.rlCalls, RLBurst)
               /\ r.id \in DOMAIN store =>
                     heap[store[r.id]].Limiter.tokens = RLBurst - h.rlPasses
               /\ r.pc = "rl_unlock" => (r.allowed <=> h.rlCalls <= RLBurst)
               /\ PassedBy(r, "rate_limit") => h.rlCalls <= RLBurst
               /\ r.by = "rate_limit" =>
                     /\ h.rlCalls = RLBurst + 1
                     /\ r.out = "too_many_requests"
                     /\ r.forwards = 0

\* The request after a burst of RLBurst passed ones has been rejected, no
\* time having passed.
C4_Witness ==
    \E q \in Slots :
        /\ req[q].pc = "done"
        /\ req[q].out = "too_many_requests"
        /\ hist[req[q].id].rlOpen
        /\ hist[req[q].id].rlCalls = RLBurst + 1
        /\ hist[req[q].id].rlPasses = RLBurst

(***************************************************************************)
(* C5: a rate-limit violation is the n-th in a row, a row being broken     *)
(* when more than RLViolationResetTTL has passed since the violation       *)
(* before; its ban is RLBanDuration * RLMultiplier^(n-1), and that is the  *)
(* ban written.                                                            *)
(***************************************************************************)
C5_RateLimitEscalation ==
    \A q \in Slots :
        LET r == req[q]
            h == hist[r.id]
            n == NthInARow(h.rlPrevAt, h.rlPrevN, r.violatedAt, RLViolationResetTTL)
        IN  /\ r.pc \in {"rl_viol_unlock", "rl_ban"} =>
                  /\ r.violationCount = n
                  /\ r.banDuration = Geometric(RLBanDuration, RLMultiplier, n)
            /\ (r.pc = "done" /\ r.by = "rate_limit") =>
                  /\ r.banDuration = Geometric(RLBanDuration, RLMultiplier, h.rlPrevN)
                  /\ r.id \in DOMAIN bans
                  /\ bans[r.id] - r.banDuration \in r.violatedAt..now

\* After two violations in a row, a violation more than the reset window
\* later is about to be banned for the base duration.
C5_Witness ==
    \E q \in Slots :
        /\ req[q].pc = "rl_ban"
        /\ hist[req[q].id].rlPrevN >= 2
        /\ req[q].violatedAt - hist[req[q].id].rlPrevAt > RLViolationResetTTL
        /\ req[q].violationCount = 1
        /\ req[q].banDuration = RLBanDuration

(***************************************************************************)
(* C6: the anomaly filter records resource -> now and keeps the entries    *)
(* not older than CXWindow; it rejects the request as forbidden and bans   *)
(* the identifier exactly when the resources accessed within the window    *)
(* are more than CXThreshold.                                              *)
(***************************************************************************)
C6_RejectsExactlyAboveThreshold ==
    \A q \in Slots :
        LET r == req[q]
            inWindow == InWindow(r.id, r.touchedAt)
        IN  /\ r.pc \in {"cx_unlock", "cx_count"} =>
                  /\ DOMAIN ResourcesOf(heap[r.st]) = inWindow
                  /\ Resource(r) # <<>> =>
                        /\ Resource(r) \in inWindow
                        /\ ResourcesOf(heap[r.st])[Resource(r)] = r.touchedAt
            /\ r.pc \in {"cx_viol", "cx_viol_unlock", "cx_ban"} =>
                  Cardinality(inWindow) > CXThreshold
            /\ (r.pc = "done" /\ r.by = "context") =>
                  /\ Cardinality(inWindow) > CXThreshold
                  /\ r.out = "forbidden"
                  /\ r.forwards = 0
                  /\ r.id \in DOMAIN bans
            /\ (r.pc \in {"cx_reset", "cx_reset_unlock"} \/ PassedBy(r, "context")) =>
                  Cardinality(inWindow) <= CXThreshold

\* The request naming the (CXThreshold+1)-th resource within the window has
\* been rejected and its identifier banned.
C6_Witness ==
    \E q \in Slots :
        /\ req[q].pc = "done"
        /\ req[q].by = "context"
        /\ req[q].out = "forbidden"
        /\ Cardinality(InWindow(req[q].id, req[q].touchedAt)) = CXThreshold + 1
        /\ req[q].id \in DOMAIN bans

(***************************************************************************)
(* C7: an identifier whose requests have all named one and the same        *)
(* resource is never found in violation, rejected or banned by the anomaly *)
(* filter.                                                                 *)
(***************************************************************************)
C7_OneResourceNeverRejected ==
    \A q \in Slots :
        LET r == req[q]
        IN  (r.pc \in {"cx_viol", "cx_viol_unlock", "cx_ban"} \/ r.by = "context")
                => hist[r.id].askedSeveral

\* More requests than the threshold, all for one resource, and the last of
\* them forwarded past the anomaly filter.
C7_Witness ==
    \E q \in Slots :
        /\ req[q].pc = "done"
        /\ req[q].out = "forwarded"
        /\ PassedBy(req[q], "context")
        /\ ~hist[req[q].id].askedSeveral
        /\ hist[req[q].id].nAsked = CXThreshold + 1
        /\ now > 1

(***************************************************************************)
(* C8, as stated: an anomaly violation that is the k-th in a row by the    *)
(* rule of the rate-limit filter (rows broken only by more than the reset  *)
(* window between violations) is banned for                                *)
(* CXBanDuration * CXMultiplier^(k-1).                                     *)
(***************************************************************************)
C8_EscalatesLikeRateLimit ==
    \A q \in Slots :
        LET r == req[q]
            h == hist[r.id]
            k == NthInARow(h.cxPrevAt, h.cxPrevN, r.violatedAt, CXViolationResetTTL)
        IN  r.pc \in {"cx_viol_unlock", "cx_ban"} =>
                r.banDuration = Geometric(CXBanDuration, CXMultiplier, k)

(***************************************************************************)
(* C8, amended: an anomaly violation is the k-th in a row, a row being     *)
(* broken by more than the reset window since the violation before and     *)
(* also by any request of the identifier that the anomaly filter has       *)
(* passed since; it is banned for CXBanDuration * CXMultiplier^(k-1).      *)
(***************************************************************************)
C8_EscalatesUnlessPassedSince ==
    \A q \in Slots :
        LET r == req[q]
            h == hist[r.id]
            k == IF h.cxPassedSince THEN 1
                 ELSE NthInARow(h.cxPrevAt, h.cxStreak, r.violatedAt, CXViolationResetTTL)
        IN  r.pc \in {"cx_viol_unlock", "cx_ban"} =>
                /\ r.violationCount = k
                /\ r.banDuration = Geometric(CXBanDuration, CXMultiplier, k)

\* A second violation in a row, no request passed in between, is about to
\* be banned for base * multiplier.
C8_Witness ==
    \E q \in Slots :
        /\ req[q].pc = "cx_ban"
        /\ hist[req[q].id].cxPrevAt # ZeroTime
        /\ ~hist[req[q].id].cxPassedSince
        /\ req[q].violatedAt - hist[req[q].id].cxPrevAt <= CXViolationResetTTL
        /\ req[q].violationCount = 2
        /\ req[q].banDuration = CXBanDuration * CXMultiplier

(***************************************************************************)
(* C9: the step of the signature filter on a request that is not banned:   *)
(* if a rule matches the normalized path or raw query the request ends as  *)
(* forbidden, unforwarded, and the identifier is banned until              *)
(* now + SGBanDuration whatever its earlier matches; if none matches, the  *)
(* request is handed to the next stage and the bans are as they were.      *)
(***************************************************************************)
C9_SignatureFixedBan ==
    [][\A q \in Slots :
          LET r == req[q]
          IN  (r.pc = "sg_match" /\ req'[q] # r) =>
                 IF ShapeHit[r.sh]
                 THEN /\ req'[q].pc = "done"
                      /\ req'[q].out = "forbidden"
                      /\ req'[q].forwards = 0
                      /\ req'[q].pos = r.pos
                      /\ r.id \in DOMAIN bans'
                      /\ bans'[r.id] = now + SGBanDuration
                 ELSE /\ req'[q].pos = r.pos + 1
                      /\ req'[q].pc # "done"
                      /\ req'[q].out = "none"
                      /\ bans' = bans]_vars

\* A second match of one identifier has been banned for the fixed duration.
C9_Witness ==
    \E q \in Slots :
        /\ req[q].pc = "done"
        /\ req[q].by = "signature"
        /\ hist[req[q].id].sgHits = 2
        /\ bans[req[q].id] = req[q].violatedAt + SGBanDuration

(***************************************************************************)
(* C10, as stated: a query string containing the script payload, raw,      *)
(* percent-encoded or entity-encoded, is matched by a rule after           *)
(* normalization, and a query string of letters and digits only is matched *)
(* by none.                                                                *)
(***************************************************************************)
C10_PayloadMatchedAlnumNot ==
    ret.op = "matched" =>
        /\ ret.form \in PayloadForms => ret.hit
        /\ ret.form = "alnum" => ~ret.hit

\* The raw payload after "q=--" has been normalized to "q=" and matched by
\* no rule.
C10_Witness ==
    /\ ret.op = "matched"
    /\ ret.form = "raw"
    /\ ret.query = <<"q", "=", "-", "-">> \o ScriptPayload
    /\ ret.normalized = <<"q", "=">>
    /\ ~ret.hit

(***************************************************************************)
(* C11: whatever the chain, the proxy is called at most once for a         *)
(* request, and only for one that every filter of the chain has been       *)
(* handed and has passed on; a request a filter has rejected is not        *)
(* forwarded.                                                              *)
(***************************************************************************)
C11_ForwardedAtMostOnce ==
    \A q \in DOMAIN req :
        LET r == req[q]
        IN  /\ r.forwards <= 1
            /\ r.forwards = 1 =>
                  /\ r.out = "forwarded"
                  /\ r.by = "none"
                  /\ r.trail = chain
                  /\ r.pos = Len(chain) + 1
            /\ r.by # "none" =>
                  /\ r.forwards = 0
                  /\ r.out \in {"forbidden", "too_many_requests"}
                  /\ r.pos <= Len(chain)

\* A request has been forwarded behind the three filters of the default
\* chain.
C11_Witness ==
    \E q \in DOMAIN req :
        /\ req[q].forwards = 1
        /\ req[q].id # ""
        /\ Len(chain) = 3
        /\ req[q].trail = chain

(***************************************************************************)
(* C12: the chain is the configured list of names without the unknown      *)
(* ones, or the default context, rate_limit, signature when none is        *)
(* configured; a request is handed to the filters in that order, so that   *)
(* the logic of a filter runs, and rejects, only once the filters listed   *)
(* before it have passed the request on.                                   *)
(***************************************************************************)
ExpectedChain(names) ==
    LET listed == IF names = <<>> THEN <<"context", "rate_limit", "signature">> ELSE names
        Known(n) == n \in {"context", "rate_limit", "signature", "somecheck"}
    IN  SelectSeq(listed, Known)

\* The filter whose code the step pc belongs to.
PcFilter(pc) ==
    CASE pc \in {"rl_lock", "rl_unlock", "rl_viol", "rl_viol_unlock", "rl_ban"} -> "rate_limit"
      [] pc \in {"cx_lock", "cx_unlock", "cx_count", "cx_viol", "cx_viol_unlock", "cx_ban",
                 "cx_reset", "cx_reset_unlock"} -> "context"
      [] pc = "sg_match" -> "signature"
      [] OTHER -> "any"

C14_EmptyIdentifierPassesThrough ==
    /\ "" \notin DOMAIN bans
    /\ \A q \in DOMAIN req :
          (req[q].pc # "idle" /\ req[q].id = "") => req[q].by = "none"

\* The signature filter has rejected a request with the empty identifier
\* and banned the empty identifier.
C14_Witness ==
    \E q \in DOMAIN req :
        /\ req[q].pc = "done"
        /\ req[q].id = ""
        /\ req[q].by = "signature"
        /\ req[q].out = "forbidden"
        /\ "" \in DOMAIN bans

(***************************************************************************)
(* C13: against the default chain with a rate-limit burst not below the    *)
(* anomaly threshold T, a client sends /items/1 ... /items/T+1 one after   *)
(* the other.  Requests 1 to T are forwarded.  Request T+1, when the T+1   *)
(* requests fall within one window, is rejected as forbidden by the        *)
(* anomaly filter and bans the client.  The request after it, when it      *)
(* meets the ban check of the first filter inside the ban, ends there as   *)
(* forbidden: no client state, store entry or ban entry is read or         *)
(* written by it.                                                          *)
(***************************************************************************)
C13_ThresholdPlusOneThenBanned ==
    /\ [](\A q \in Slots :
            LET r == req[q]
            IN  (ret.op = "client" /\ r.pc = "done") =>
                   /\ ret.sent \in 1..CXThreshold =>
                         /\ r.out = "forwarded"
                         /\ r.by = "none"
                         /\ r.forwards = 1
                   /\ (ret.sent = CXThreshold + 1 /\ r.touchedAt - ret.start <= CXWindow) =>
                         /\ r.out = "forbidden"
                         /\ r.by = "context"
                         /\ r.forwards = 0
                         /\ r.uniqueCount = CXThreshold + 1
                         /\ BanLookup(bans, r.id, r.violatedAt) = "banned")
    /\ [][\A q \in Slots :
            LET r == req[q]
            IN  ( /\ ret.op = "client"
                  /\ ret.sent = CXThreshold + 2
                  /\ r.pc = "ban_check"
                  /\ r.pos = 1
                  /\ BanLookup(bans, r.id, now) = "banned"
                  /\ req'[q] # r ) =>
                     /\ req'[q].pc = "done"
                     /\ req'[q].out = "forbidden"
                     /\ req'[q].by = "ban"
                     /\ req'[q].forwards = 0
                     /\ req'[q].trail = <<"context">>
                     /\ UNCHANGED <<heap, store, bans>>]_vars

\* The request after the rejected one has been rejected at the ban check of
\* the anomaly filter, inside the ban the rejected one wrote.
C13_Witness ==
    \E q \in Slots :
        /\ ret.op = "client"
        /\ ret.sent = CXThreshold + 2
        /\ req[q].pc = "done"
        /\ req[q].by = "ban"
        /\ req[q].trail = <<"context">>
        /\ BanLookup(bans, req[q].id, now) = "banned"
        /\ BolaViolations(heap[store[req[q].id]]) = 1
        /\ Cardinality(DOMAIN ResourcesOf(heap[store[req[q].id]])) = CXThreshold + 1

(***************************************************************************)
(* C15, as stated: whatever the interleaving of the Get calls of two       *)
(* goroutines for one identifier, the first calls included, every call     *)
(* returns the one State the store holds for the identifier, and no second *)
(* State is ever made for it.                                              *)
(***************************************************************************)
C15_GetReturnsSharedInstance ==
    /\ \A i, j \in DOMAIN heap : heap[i].ID = heap[j].ID => i = j
    /\ \A q \in DOMAIN req :
          req[q].st # 0 =>
              /\ req[q].id \in DOMAIN store
              /\ req[q].st = store[req[q].id]

\* Two goroutines serving the same identifier each hold the lock of a State
\* of their own: both are inside the critical section at once, and the State
\* the store does not hold takes updates no later request will see.
C15_Witness ==
    \E p, q \in DOMAIN req :
        /\ p # q
        /\ req[p].id = req[q].id
        /\ req[p].st # 0
        /\ req[q].st # 0
        /\ req[p].st # req[q].st
        /\ heap[req[p].st].mu = p
        /\ heap[req[q].st].mu = q
        /\ store[req[q].id] = req[q].st

(***************************************************************************)
(* C16, as stated: a goroutine that takes a step reading or writing the    *)
(* fields of a State (the bucket, LastSeen, the counters and times of the  *)
(* violations, the resources map and its size) holds the lock of that      *)
(* State as the step completes.                                            *)
(***************************************************************************)
AccessPcs == {"rl_lock", "rl_viol", "cx_lock", "cx_count", "cx_viol", "cx_reset"}

C16_StateAccessUnderLock ==
    [][\A q \in DOMAIN req :
          (req[q].pc \in AccessPcs /\ req'[q] # req[q]) =>
              heap'[req[q].st].mu = q]_vars

\* A goroutine is about to read len(resources) while another is inside
\* lines 97-122 on the same State, where the map goes through more than one
\* size.
C16_Witness ==
    \E p, q \in DOMAIN req :
        /\ p # q
        /\ req[q].pc = "cx_count"
        /\ req[p].pc = "cx_unlock"
        /\ req[p].st = req[q].st
        /\ heap[req[p].st].mu = p
        /\ Cardinality(req[p].sizes) > 1

(***************************************************************************)
(* C17, as stated: from the decision of a filter on a request (the token   *)
(* taken or refused, the history recorded, pruned and counted) to the      *)
(* update of the violation counter that follows from it, no other          *)
(* goroutine reads or writes the State.                                    *)
(***************************************************************************)
DecidedPcs == {"rl_viol", "cx_count", "cx_viol", "cx_reset"}

C17_DecisionAndUpdateAtomic ==
    [][\A q \in DOMAIN req :
          (req[q].pc \in DecidedPcs /\ req'[q] = req[q]) =>
              heap'[req[q].st] = heap[req[q].st]]_vars

\* Two goroutines have each been refused a token of the same State and
\* neither has counted its violation yet.
C17_Witness ==
    \E p, q \in DOMAIN req :
        /\ p # q
        /\ req[p].pc = "rl_viol"
        /\ req[q].pc = "rl_viol"
        /\ req[p].st = req[q].st
        /\ heap[req[p].st].mu = 0

(***************************************************************************)
(* C18, as stated: each parameter of the rate-limit filter and of the      *)
(* anomaly filter is the configured value when that value is positive and  *)
(* the default otherwise, independently of the other parameters; so a      *)
(* configuration that sets the anomaly window only leaves the threshold at *)
(* its default and a positive base ban.                                    *)
(***************************************************************************)
OrDefault(configured, default) == IF configured > 0 THEN configured ELSE default

C18_EachParameterConfiguredOrDefault ==
    ret.op = "LoadConfig" =>
        LET rlc == ret.cfg.RateLimit
            cxc == ret.cfg.Context
        IN  /\ "rate_limit" \in ret.registered =>
                  /\ ret.rl.limit = OrDefault(rlc.Limit, 5)
                  /\ ret.rl.burst = OrDefault(rlc.Burst, 20)
                  /\ ret.rl.banDuration = OrDefault(rlc.BanSeconds, 30)
                  /\ ret.rl.multiplier = OrDefault(rlc.Multiplier, 2)
                  /\ ret.rl.violationResetTTL = OrDefault(rlc.ViolationResetHrs, 24) * 3600
            /\ "context" \in ret.registered =>
                  /\ ret.cm.window = OrDefault(cxc.WindowSeconds, 60)
                  /\ ret.cm.threshold = OrDefault(cxc.Threshold, 20)
                  /\ ret.cm.banDuration = OrDefault(cxc.BanSeconds, 300)
                  /\ ret.cm.multiplier = OrDefault(cxc.Multiplier, 2)
                  /\ ret.cm.violationResetTTL = OrDefault(cxc.ViolationResetHours, 24) * 3600

\* The anomaly filter has been registered from a configuration that sets the
\* window and nothing else of the anomaly filter: its threshold and its base
\* ban are zero.
C18_Witness ==
    /\ ret.op = "LoadConfig"
    /\ "context" \in ret.registered
    /\ ret.cfg.Context.WindowSeconds > 0
    /\ ret.cfg.Context.Threshold = 0
    /\ ret.cfg.Context.BanSeconds = 0
    /\ ret.cm.window = ret.cfg.Context.WindowSeconds
    /\ ret.cm.threshold = 0
    /\ ret.cm.banDuration = 0

(***************************************************************************)
(* C19: in the rate-limit filter the violation counter and the time of the *)
(* last violation of a State change in no step but the one that counts a   *)
(* violation; a request that got its token never takes that step, so it    *)
(* leaves both as they were.  The step that counts a violation adds one to *)
(* the counter, or sets it to one when more than the reset window has      *)
(* passed since the violation before: that is the only way the counter     *)
(* goes down.                                                              *)
(***************************************************************************)
C19_AdmittedLeavesViolationCounter ==
    [][/\ \A q \in Slots :
             (req[q].pc = "rl_unlock" /\ req[q].allowed /\ req'[q] # req[q]) =>
                 req'[q].pc \notin {"rl_viol", "rl_viol_unlock", "rl_ban", "done"}
       /\ \A i \in DOMAIN heap :
             LET a == heap[i]
                 b == heap'[i]
                 counted == \E q \in Slots :
                               /\ req[q].pc = "rl_viol"
                               /\ req[q].st = i
                               /\ req'[q].pc = "rl_viol_unlock"
             IN  /\ ~counted =>
                       /\ b.RateLimitViolations = a.RateLimitViolations
                       /\ b.LastViolationTime = a.LastViolationTime
                 /\ counted =>
                       /\ b.LastViolationTime = now
                       /\ \/ b.RateLimitViolations = a.RateLimitViolations + 1
                          \/ /\ b.RateLimitViolations = 1
                             /\ a.LastViolationTime # ZeroTime
                             /\ now - a.LastViolationTime > RLViolationResetTTL]_vars

\* A request has got its token and been passed on by the rate-limit filter
\* while the counter of its State stands at a violation counted earlier.
C19_Witness ==
    \E q \in Slots :
        /\ PassedBy(req[q], "rate_limit")
        /\ req[q].id \in DOMAIN store
        /\ heap[store[req[q].id]].RateLimitViolations >= 1
        /\ heap[store[req[q].id]].LastViolationTime # ZeroTime
        /\ heap[store[req[q].id]].LastSeen > heap[store[req[q].id]].LastViolationTime

(***************************************************************************)
(* C20: a request the anomaly filter passes on (its identifier not banned, *)
(* its count of resources not above the threshold) has had the anomaly     *)
(* counter of its State set to zero and the time of the last anomaly       *)
(* violation set to the zero time, whatever they were.                     *)
(***************************************************************************)
C20_PassResetsAnomalyCounter ==
    \A q \in Slots :
        LET r == req[q]
        IN  ( /\ r.id \in DOMAIN store
              /\ \/ r.pc = "cx_reset_unlock"
                 \/ PassedBy(r, "context") ) =>
                 LET st == heap[store[r.id]]
                 IN  /\ "bola_violations" \in DOMAIN st.Meta
                     /\ st.Meta["bola_violations"] = 0
                     /\ "last_bola_violation_time" \in DOMAIN st.Meta
                     /\ st.Meta["last_bola_violation_time"] = ZeroTime

\* The anomaly filter has passed on a request of an identifier it had found
\* in violation before.
C20_Witness ==
    \E q \in Slots :
        /\ PassedBy(req[q], "context")
        /\ req[q].uniqueCount <= CXThreshold
        /\ hist[req[q].id].cxPrevAt # ZeroTime
        /\ hist[req[q].id].cxPassedSince
        /\ BolaViolations(heap[store[req[q].id]]) = 0

(***************************************************************************)
(* C21: the two filters escalate on pairs of their own.  No step of the    *)
(* rate-limit filter changes bola_violations or last_bola_violation_time   *)
(* of any State, and no step of the anomaly filter changes                 *)
(* RateLimitViolations or LastViolationTime of any State, whatever the     *)
(* requests that went before.                                              *)
(***************************************************************************)
C21_SeparateEscalationPairs ==
    [][\A q \in DOMAIN req :
          req'[q] # req[q] =>
              \A i \in DOMAIN heap :
                  /\ PcFilter(req[q].pc) = "rate_limit" =>
                        /\ BolaViolations(heap'[i]) = BolaViolations(heap[i])
                        /\ LastBolaViolationTime(heap'[i]) = LastBolaViolationTime(heap[i])
                  /\ PcFilter(req[q].pc) = "context" =>
                        /\ heap'[i].RateLimitViolations = heap[i].RateLimitViolations
                        /\ heap'[i].LastViolationTime = heap[i].LastViolationTime]_vars

\* The anomaly filter has counted a violation on a State on which the
\* rate-limit filter had counted one at another time: the State holds both
\* pairs, each with its own count and time.
C21_Witness ==
    \E q \in DOMAIN req :
        /\ req[q].by = "context"
        /\ req[q].id \in DOMAIN store
        /\ heap[store[req[q].id]].RateLimitViolations = 1
        /\ BolaViolations(heap[store[req[q].id]]) = 1
        /\ heap[store[req[q].id]].LastViolationTime # ZeroTime
        /\ LastBolaViolationTime(heap[store[req[q].id]])
              # heap[store[req[q].id]].LastViolationTime

(***************************************************************************)
(* C22: the resource the anomaly filter records for a request is the value *)
(* of the query parameter id when the query has one that is not empty,     *)
(* otherwise the last segment of the path when that segment is an integer  *)
(* literal, otherwise none.  A request with no resource adds no entry to   *)
(* the history: the locked section leaves the history pruned to the        *)
(* window and LastSeen at the clock.  Such a request, if not stopped at the *)
(* ban check, is forwarded exactly when the pruned history holds no more   *)
(* than the threshold.                                                     *)
(***************************************************************************)
IntegerLiterals ==
    LET D == {"0", "1", "2", "3", "4", "5", "6", "7", "8", "9"}
    IN  {<<d>> : d \in D}
        \cup {<<a, d>> : a \in D \cup {"+", "-"}, d \in D}

ExpectedResource(f) ==
    LET ids == {i \in DOMAIN f.params : f.params[i][1] = <<"i", "d">>}
        first == CHOOSE i \in ids : \A j \in ids : i <= j
    IN  IF ids # {} /\ f.params[first][2] # <<>> THEN f.params[first][2]
        ELSE IF f.segs # <<>> /\ f.segs[Len(f.segs)] \in IntegerLiterals
             THEN f.segs[Len(f.segs)]
        ELSE <<>>

YoungerThanWindow(resources, t) ==
    [k \in {x \in DOMAIN resources : t - resources[x] <= CXWindow} |-> resources[k]]

C22_ResourceIdAndNoResourcePass ==
    /\ [](\A q \in Slots :
            LET r == req[q]
            IN  (r.sh \in FormShapeIds /\ r.st # 0) =>
                   LET want == ExpectedResource(FormOf(r.sh))
                       kept == ResourcesOf(heap[r.st])
                   IN  /\ (r.pc = "cx_unlock" /\ want # <<>>) =>
                             (want \in DOMAIN kept /\ kept[want] = r.touchedAt)
                       /\ (r.pc = "done" /\ want = <<>> /\ r.by # "ban") =>
                             (r.out = "forwarded" <=> Cardinality(DOMAIN kept) <= CXThreshold))
    /\ [][\A q \in Slots :
            LET r == req[q]
            IN  ( /\ r.sh \in FormShapeIds
                  /\ r.pc = "cx_lock"
                  /\ req'[q].pc = "cx_unlock"
                  /\ ExpectedResource(FormOf(r.sh)) = <<>> ) =>
                     /\ ResourcesOf(heap'[r.st]) = YoungerThanWindow(ResourcesOf(heap[r.st]), now)
                     /\ heap'[r.st].LastSeen = now]_vars

\* A request naming no resource has been through the locked section of the
\* anomaly filter on a State whose history held entries, one of them older
\* than the window, and has been forwarded.
C22_Witness ==
    \E q \in Slots :
        /\ req[q].sh \in FormShapeIds
        /\ ExpectedResource(FormOf(req[q].sh)) = <<>>
        /\ req[q].out = "forwarded"
        /\ req[q].id \in DOMAIN store
        /\ heap[store[req[q].id]].LastSeen = req[q].touchedAt
        /\ ResourcesOf(heap[store[req[q].id]]) # EmptyMap
        /\ \E k \in DOMAIN hist[req[q].id].lastAccess :
              k \notin DOMAIN ResourcesOf(heap[store[req[q].id]])

(***************************************************************************)
(* C23: the step by which the rate-limit filter or the anomaly filter      *)
(* rejects a request for a violation writes the ban of the identifier to   *)
(* end the escalated duration after the clock, the duration being          *)
(* base*multiplier^(n-1) for the count n this violation left in the State, *)
(* and answers with that same duration, in seconds, as Retry-After,        *)
(* without forwarding.                                                     *)
(***************************************************************************)
C23_BanAndRetryAfterMatchEscalation ==
    [][\A q \in Slots :
          LET r == req[q]
              after == req'[q]
          IN  /\ (r.pc = "rl_ban" /\ after.pc = "done") =>
                    LET d == Geometric(RLBanDuration, RLMultiplier,
                                       heap[r.st].RateLimitViolations)
                    IN  /\ r.id \in DOMAIN bans'
                        /\ bans'[r.id] = now + d
                        /\ after.retry = <<60 * d>>
                        /\ after.out = "too_many_requests"
                        /\ after.by = "rate_limit"
                        /\ after.forwards = 0
              /\ (r.pc = "cx_ban" /\ after.pc = "done") =>
                    LET d == Geometric(CXBanDuration, CXMultiplier,
                                       BolaViolations(heap[r.st]))
                    IN  /\ r.id \in DOMAIN bans'
                        /\ bans'[r.id] = now + d
                        /\ after.retry = <<60 * d>>
                        /\ after.out = "forbidden"
                        /\ after.by = "context"
                        /\ after.forwards = 0]_vars

\* The rate-limit filter has rejected a second violation in a row: the ban
\* and the Retry-After are twice the base.
C23_Witness ==
    \E q \in Slots :
        /\ req[q].pc = "done"
        /\ req[q].by = "rate_limit"
        /\ req[q].violationCount = 2
        /\ heap[store[req[q].id]].RateLimitViolations = 2
        /\ req[q].retry = <<60 * RLBanDuration * RLMultiplier>>
        /\ bans[req[q].id] = req[q].violatedAt + RLBanDuration * RLMultiplier

(***************************************************************************)
(* C24: a goroutine holds at most one State lock at a time, and holds one  *)
(* only between the Lock and the Unlock of one section of a filter: never  *)
(* when it hands the request to the next stage or to the proxy, and never  *)
(* once the request has been answered.  A request that has been answered   *)
(* has been either forwarded once or rejected and not forwarded.  Every    *)
(* request taken up is eventually answered.                                *)
(***************************************************************************)
LockedPcs == {"rl_unlock", "rl_viol_unlock", "cx_unlock", "cx_viol_unlock", "cx_reset_unlock"}

LocksHeldBy(q) == {i \in DOMAIN heap : heap[i].mu = q}

C24_LocksReleasedAndRequestsEnd ==
    /\ [](\A q \in DOMAIN req :
            LET r == req[q]
            IN  /\ Cardinality(LocksHeldBy(q)) <= 1
                /\ LocksHeldBy(q) # {} => (r.pc \in LockedPcs /\ LocksHeldBy(q) = {r.st})
                /\ r.pc \in LockedPcs => LocksHeldBy(q) = {r.st}
                /\ r.pc = "done" =>
                      \/ (r.out = "forwarded" /\ r.forwards = 1 /\ r.by = "none")
                      \/ (r.out \in {"forbidden", "too_many_requests"}
                          /\ r.forwards = 0 /\ r.by # "none"))
    /\ \A q \in Workers : (req[q].pc # "idle") ~> (req[q].pc = "done")

\* A goroutine waits for the lock of the State another goroutine holds.
C24_Witness ==
    \E p, q \in DOMAIN req :
        /\ p # q
        /\ req[p].pc \in {"rl_lock", "rl_viol", "cx_lock", "cx_viol", "cx_reset"}
        /\ req[q].pc \in LockedPcs
        /\ req[p].st = req[q].st
        /\ heap[req[p].st].mu = q

(***************************************************************************)
(* C25, as stated: the deletion by an IsBanned that saw an expired entry   *)
(* never removes the entry a Ban has written since: from the return of     *)
(* Ban(id, d), d > 0, until the expiry it set, the registry holds that     *)
(* entry and IsBanned(id) is true.                                         *)
(***************************************************************************)
C25_LazyDeleteKeepsNewBan ==
    \A id \in DOMAIN lastBan :
        now < lastBan[id] =>
            /\ id \in DOMAIN bans
            /\ bans[id] = lastBan[id]
            /\ IsBannedValue(bans, id, now)

\* A goroutine that had seen the expired entry has deleted the entry another
\* goroutine's Ban wrote after that: the identifier is not banned although
\* its last Ban has not expired.
C25_Witness ==
    \E id \in DOMAIN lastBan :
        /\ now < lastBan[id]
        /\ id \notin DOMAIN bans
        /\ ~IsBannedValue(bans, id, now)
        /\ \E q \in DOMAIN req : req[q].id = id /\ req[q].pc \in {"get", "sg_match"}

(***************************************************************************)
(* C26, as stated: with the rate-limit filter as the chain, whenever no    *)
(* request is between the counting of its violation and its answer, a ban  *)
(* entry of an identifier whose State has counted n violations in a row    *)
(* ends no earlier than base*multiplier^(n-1) after the time of the last   *)
(* of them: the ban of the later violation is not overwritten by the       *)
(* shorter ban of an earlier one.                                          *)
(***************************************************************************)
C26_BanOfHighestViolationStands ==
    ( /\ chain = <<"rate_limit">>
      /\ \A q \in DOMAIN req : req[q].pc \in {"idle", "done"} ) =>
        \A id \in DOMAIN bans :
            id \in DOMAIN store =>
                LET st == heap[store[id]]
                IN  st.RateLimitViolations >= 1 =>
                        bans[id] >= st.LastViolationTime
                                    + Geometric(RLBanDuration, RLMultiplier,
                                                st.RateLimitViolations)

\* Both requests have been answered; the State, the only one made for the
\* identifier, has counted two violations in a row, and the ban entry is the
\* one of the first: it ends the base duration after the violations.
C26_Witness ==
    /\ chain = <<"rate_limit">>
    /\ Len(heap) = 1
    /\ \A q \in DOMAIN req : req[q].pc = "done" /\ req[q].by = "rate_limit"
    /\ \E id \in DOMAIN bans :
          /\ id \in DOMAIN store
          /\ heap[store[id]].RateLimitViolations = 2
          /\ bans[id] = heap[store[id]].LastViolationTime + RLBanDuration

(***************************************************************************)
(* C27: with requests one at a time and a multiplier above 1, the          *)
(* rate-limit violation counter of a State never exceeds N, the least n    *)
(* for which base*multiplier^(n-1) is more than the reset window: the ban   *)
(* of the N-th violation outlasts the reset window, so the violation after *)
(* it starts from zero.  The duration of every ban the filter applies is   *)
(* positive, at least the base and at most base*multiplier^(N-1).          *)
(***************************************************************************)
LeastOver(base, multiplier, ttl) ==
    CHOOSE n \in 1..(ttl + 2) :
        /\ Geometric(base, multiplier, n) > ttl
        /\ \A m \in 1..(n - 1) : Geometric(base, multiplier, m) <= ttl

C27_ViolationCounterBounded ==
    LET N == LeastOver(RLBanDuration, RLMultiplier, RLViolationResetTTL)
        longest == Geometric(RLBanDuration, RLMultiplier, N)
    IN  /\ \A i \in DOMAIN heap : heap[i].RateLimitViolations <= N
        /\ \A q \in Slots :
              LET r == req[q]
              IN  (r.pc \in {"rl_viol_unlock", "rl_ban"} \/ r.by = "rate_limit") =>
                      /\ r.violationCount \in 1..N
                      /\ r.banDuration > 0
                      /\ r.banDuration >= RLBanDuration
                      /\ r.banDuration <= longest
                      /\ r.pc = "done" => bans[r.id] <= now + longest

\* After N violations in a row, the last of them banned for longer than the
\* reset window, the next violation has been counted as the first.
C27_Witness ==
    \E q \in Slots :
        /\ req[q].pc = "rl_ban"
        /\ hist[req[q].id].rlPrevN
              = LeastOver(RLBanDuration, RLMultiplier, RLViolationResetTTL)
        /\ req[q].violationCount = 1
        /\ req[q].banDuration = RLBanDuration
        /\ heap[req[q].st].RateLimitViolations = 1

(***************************************************************************)
(* C28, as stated: with a positive window, threshold and base ban and      *)
(* requests one at a time, whenever no request is being served and the     *)
(* identifier is not banned, the resource history of its State holds at    *)
(* most threshold entries younger than the window.                         *)
(***************************************************************************)
C28_HistoryWithinThresholdWhenNotBanned ==
    ( /\ chain = <<"context">>
      /\ \A q \in Slots : req[q].pc = "idle" ) =>
        \A id \in DOMAIN store :
            ~IsBannedValue(bans, id, now) =>
                LET resources == ResourcesOf(heap[store[id]])
                    young == {k \in DOMAIN resources : now - resources[k] <= CXWindow}
                IN  Cardinality(young) <= CXThreshold

\* The first request the anomaly filter handles after the ban of a violation
\* has expired is found in violation again, the second in a row, on a history
\* of one more than the threshold.
C28_Witness ==
    \E q \in Slots :
        /\ chain = <<"context">>
        /\ req[q].pc = "cx_ban"
        /\ hist[req[q].id].cxPrevAt # ZeroTime
        /\ ~hist[req[q].id].cxPassedSince
        /\ req[q].touchedAt > hist[req[q].id].cxPrevAt
        /\ req[q].uniqueCount = CXThreshold + 1
        /\ req[q].violationCount = 2
        /\ \E k \in DOMAIN ResourcesOf(heap[req[q].st]) :
              ResourcesOf(heap[req[q].st])[k] <= hist[req[q].id].cxPrevAt

=============================================================================
